---- MODULE Spec2Model ----
(***************************************************************************)
(* CogniCoder's tagged-block markup (CML): the patch engine of            *)
(* code_patcher_cml.py, the block extractor of cml_parser.py and the      *)
(* field store of enhanced-cml-parser.py.                                 *)
(*                                                                         *)
(* A text is a sequence of tokens.  A token is one character (newline,    *)
(* space, the '#' comment marker, an ordinary character) or one tag       *)
(* literal, "[[cc.block.K]]", "[[/cc.block.K]]", "[[cc.K]]" or            *)
(* "[[/cc.K]]", which the programs only ever match as a whole.  Indexes   *)
(* are Python's: 0-based, -1 for "not found".                             *)
(***************************************************************************)
EXTENDS Integers, Sequences, FiniteSets, TLC

VARIABLES
    pc,               \* where the caller is: which handler ran last
    content,          \* the text handed to the handler (target / document)
    patch_content,    \* CodePatcherCML.patch_content: the operation list
    patched_content,  \* the text a patch handler returns / accumulates
    idx,              \* _process_patch: number of operations already applied
    start_index,      \* local of _add_or_replace_block / _remove_block
    end_index,        \* local of _add_or_replace_block / _remove_block
    lastop,           \* the last handler call and its arguments
    fields,           \* CMLParser.fields: the store, in insertion order
    snapshot,         \* the store as it was before the last store handler
    warnings,         \* the lines printed on the warning channel, in order
    generated,        \* the text generate_cml_content returned last
    declared,         \* the regions the input document was written from
    calls,            \* number of store handlers the caller has called
    language,         \* CMLParser.language
    language_config,  \* CMLParser.language_config
    field_pattern,    \* CMLParser.field_pattern: the language it was compiled for
    raised,           \* the exception the last handler left to its caller
    parsed_data,      \* OutputParser.parsed_data
    buffer,           \* parse_stream: the local buffer
    yielded,          \* parse_stream: the items yielded so far, in order
    files,            \* the file system: the text of every file that exists
    returned          \* the value the last file handler returned

vars == <<pc, content, patch_content, patched_content, idx, start_index,
          end_index, lastop, fields, snapshot, warnings, generated, declared,
          calls, language, language_config, field_pattern, raised,
          parsed_data, buffer, yielded, files, returned>>

\* the state of a CMLParser of enhanced-cml-parser.py and of its caller
storeVars == <<fields, snapshot, warnings, generated>>

\* which parser it is, and what its caller has seen of it
parserVars == <<calls, language, language_config, field_pattern, raised>>

\* the generator of parse_stream and the files of apply_patch
ioVars == <<buffer, yielded, files, returned>>

\* the state of a CodePatcherCML and of its caller
patchVars == <<patch_content, patched_content, idx, start_index, end_index>>

-----------------------------------------------------------------------------
(* Bounds of the explored inputs. *)

MaxPieces == 4
MaxOps == 2
MaxTargetBlocks == 2
MaxDocPieces == 3

-----------------------------------------------------------------------------
(* Tokens. *)

Ch(c) == [t |-> "ch", k |-> <<>>, p |-> c]
NL == Ch("\n")
SP == Ch(" ")
HASH == Ch("#")
CX == Ch("x")
CY == Ch("y")

\* "[[cc.block.K]]" and "[[/cc.block.K]]"
BlockOpen(k) == [t |-> "bopen", k |-> k, p |-> "none"]
BlockClose(k) == [t |-> "bclose", k |-> k, p |-> "none"]

IsSpace(tok) == tok = NL \/ tok = SP

-----------------------------------------------------------------------------
(* Python string primitives on token sequences. *)

\* s[i:] for 0 <= i
From(s, i) == IF i >= Len(s) THEN <<>> ELSE SubSeq(s, i + 1, Len(s))

\* s[:i] for 0 <= i
Upto(s, i) == IF i >= Len(s) THEN s ELSE SubSeq(s, 1, i)

\* s[i:j] for 0 <= i, 0 <= j
Slice(s, i, j) == IF j <= i THEN <<>> ELSE Upto(From(s, i), j - i)

StartsWithAt(s, lit, i) ==
    /\ i + Len(lit) <= Len(s)
    /\ \A j \in 1..Len(lit) : s[i + j] = lit[j]

\* str.find(lit, from): the lowest 0-based index >= from, or -1
FindFrom(s, lit, from) ==
    LET hits == {i \in from..(Len(s) - Len(lit)) : StartsWithAt(s, lit, i)}
    IN  IF hits = {} THEN -1
        ELSE CHOOSE i \in hits : \A j \in hits : i <= j

\* str.find(lit)
Find(s, lit) == FindFrom(s, lit, 0)

EndsWithNewline(s) == Len(s) > 0 /\ s[Len(s)] = NL

RECURSIVE LStripNewlines(_)
LStripNewlines(s) ==
    IF Len(s) > 0 /\ s[1] = NL THEN LStripNewlines(Tail(s)) ELSE s

RECURSIVE RStripNewlines(_)
RStripNewlines(s) ==
    IF EndsWithNewline(s) THEN RStripNewlines(SubSeq(s, 1, Len(s) - 1)) ELSE s

\* str.rstrip('\n') in the place of str.strip('\n')
strip_trailing_only(s) == RStripNewlines(s)

\* str.strip('\n')
StripNewlines(s) == RStripNewlines(LStripNewlines(s))

-----------------------------------------------------------------------------
(* code_patcher_cml.py: the per-operation functions. *)

\* f"# [[cc.block.{block_type}]]"
block_start(block_type) == <<HASH, SP, BlockOpen(block_type)>>

\* f"# [[/cc.block.{block_type}]]"
block_end(block_type) == <<HASH, SP, BlockClose(block_type)>>

\* f"{block_start}\n{block_content}\n{block_end}" on the stripped content
full_block(block_type, block_content) ==
    block_start(block_type) \o <<NL>> \o StripNewlines(block_content)
        \o <<NL>> \o block_end(block_type)

\* start_index = content.find(block_start)
start_of(text, block_type) == Find(text, block_start(block_type))

\* end_index = content.find(block_end): a search over the whole text
end_of(text, block_type) == Find(text, block_end(block_type))

AppendNewlineAlways(text) == text \o <<NL>>

\* the separator of the "Add new block" branch
Separated(text) ==
    IF text /= <<>> /\ ~EndsWithNewline(text) THEN text \o <<NL>> ELSE text

add_or_replace_block(text, block_type, block_content) ==
    LET s == start_of(text, block_type)
        e == end_of(text, block_type)
    IN  IF s /= -1 /\ e /= -1
        THEN Upto(text, s) \o full_block(block_type, block_content)
                 \o From(text, e + Len(block_end(block_type)))
        ELSE Separated(text) \o full_block(block_type, block_content)

remove_block(text, block_type) ==
    LET s == start_of(text, block_type)
        e == end_of(text, block_type)
    IN  IF s /= -1 /\ e /= -1
        THEN Upto(text, s) \o From(text, e + Len(block_end(block_type)))
        ELSE text

-----------------------------------------------------------------------------
(* cml_parser.py: BLOCK_PATTERN (compiled with re.DOTALL) and             *)
(* parse_code_blocks.  The pattern is, in order: the start of the text or *)
(* one newline; optionally '#' and any whitespace; the opening tag, whose *)
(* key is captured; any text, as little as possible, captured; optionally *)
(* '#' and any whitespace; the closing tag of the captured key.           *)
(* Positions are 0-based offsets into the token sequence.                 *)

At(s, i) == s[i + 1]

RECURSIVE SkipSpace(_, _)
\* greedy whitespace: the first offset >= i that holds no whitespace
SkipSpace(s, i) ==
    IF i < Len(s) /\ IsSpace(At(s, i)) THEN SkipSpace(s, i + 1) ELSE i

\* optional '#' and whitespace, then a tag of kind t: the tag's offset, or -1
FencedTagAt(s, i, t) ==
    IF i >= Len(s) THEN -1
    ELSE IF At(s, i) = HASH
         THEN LET r == SkipSpace(s, i + 1)
              IN  IF r < Len(s) /\ At(s, r).t = t THEN r ELSE -1
         ELSE IF At(s, i).t = t THEN i ELSE -1

\* the closing part of the pattern at offset i: the tag's offset, or -1
BlockCloseAt(s, i, key) ==
    LET r == FencedTagAt(s, i, "bclose")
    IN  IF r /= -1 /\ At(s, r).k = key THEN r ELSE -1

\* the lazy capture: the lowest offset >= from where the closing part matches
LazyBlockEnd(s, from, key) ==
    LET hits == {c \in from..(Len(s) - 1) : BlockCloseAt(s, c, key) /= -1}
    IN  IF hits = {} THEN -1
        ELSE CHOOSE c \in hits : \A d \in hits : c <= d

NoMatch == [ok |-> FALSE, tag |-> <<>>, content |-> <<>>, end |-> -1]

\* the pattern from the opening tag's fence at offset q on
BlockBodyAt(s, q) ==
    LET o == FencedTagAt(s, q, "bopen")
    IN  IF o = -1 THEN NoMatch
        ELSE LET c == LazyBlockEnd(s, o + 1, At(s, o).k)
             IN  IF c = -1 THEN NoMatch
                 ELSE [ok |-> TRUE, tag |-> At(s, o).k,
                       content |-> Slice(s, o + 1, c),
                       end |-> BlockCloseAt(s, c, At(s, o).k) + 1]

\* one match attempt starting at offset p: start of text tried first, then
\* a newline
BlockMatchAt(s, p) ==
    LET atStart == IF p = 0 THEN BlockBodyAt(s, 0) ELSE NoMatch
    IN  IF atStart.ok THEN atStart
        ELSE IF p < Len(s) /\ At(s, p) = NL THEN BlockBodyAt(s, p + 1)
        ELSE NoMatch

RECURSIVE FindAllBlocks(_, _)
\* block_regex.findall(content): leftmost, non-overlapping, in one pass
FindAllBlocks(s, p) ==
    IF p > Len(s) THEN <<>>
    ELSE LET m == BlockMatchAt(s, p)
         IN  IF m.ok
             THEN <<[k |-> m.tag, c |-> m.content]>> \o FindAllBlocks(s, m.end)
             ELSE FindAllBlocks(s, p + 1)

\* [(tag.strip('.'), block_content) for tag, block_content in findall]
parse_code_blocks(text) == FindAllBlocks(text, 0)

-----------------------------------------------------------------------------
(* code_patcher_cml.py: _process_patch. *)

\* 'remove' in block_type
ContainsRemove(block_type) ==
    \E i \in 1..Len(block_type) : block_type[i] = "remove"

RECURSIVE ReplaceRemoveDot(_)
\* block_type.replace('remove.', '')
ReplaceRemoveDot(block_type) ==
    IF block_type = <<>> THEN <<>>
    ELSE IF Len(block_type) >= 2 /\ block_type[1] = "remove"
            /\ block_type[2] = "."
         THEN ReplaceRemoveDot(From(block_type, 2))
         ELSE <<block_type[1]>> \o ReplaceRemoveDot(Tail(block_type))

\* the branch of the loop body taken for one (block_type, block_content)
Classify(item) ==
    IF ContainsRemove(item.k)
    THEN [op |-> "remove", k |-> ReplaceRemoveDot(item.k), c |-> <<>>]
    ELSE [op |-> "upsert", k |-> item.k, c |-> item.c]

\* the loop body: the per-operation function applied to the text so far
ApplyItem(text, item) ==
    LET o == Classify(item)
    IN  IF o.op = "remove" THEN remove_block(text, o.k)
        ELSE add_or_replace_block(text, o.k, o.c)

item_from_end(ops, i) == ops[Len(ops) - i]

\* "for block_type, block_content in self.patch_content": the item of the
\* iteration that follows i completed ones
item_after(ops, i) == ops[i + 1]

-----------------------------------------------------------------------------
(* enhanced-cml-parser.py: the language profiles.  A language identifier  *)
(* is a sequence of characters; a marker is a sequence of tokens.         *)

PYTHON == <<"p", "y", "t", "h", "o", "n">>
JAVASCRIPT == <<"j", "a", "v", "a", "s", "c", "r", "i", "p", "t">>
CLANG == <<"c">>
GO == <<"g", "o">>
HTML == <<"h", "t", "m", "l">>
CSS == <<"c", "s", "s">>
CML == <<"c", "m", "l">>

\* LanguageConfig(start_marker, end_marker='')
LanguageConfig(start_marker, end_marker) ==
    [start_marker |-> start_marker, end_marker |-> end_marker]

SlashSlash == <<Ch("/"), Ch("/")>>

LANGUAGE_CONFIGS ==
    (PYTHON :> LanguageConfig(<<HASH>>, <<>>))
    @@ (JAVASCRIPT :> LanguageConfig(SlashSlash, <<>>))
    @@ (CLANG :> LanguageConfig(SlashSlash, <<>>))
    @@ (GO :> LanguageConfig(SlashSlash, <<>>))
    @@ (HTML :> LanguageConfig(<<Ch("<"), Ch("!"), Ch("-"), Ch("-")>>,
                               <<Ch("-"), Ch("-"), Ch(">")>>))
    @@ (CSS :> LanguageConfig(<<Ch("/"), Ch("*")>>, <<Ch("*"), Ch("/")>>))
    @@ (CML :> LanguageConfig(<<>>, <<>>))

UpperCase ==
    <<"A", "B", "C", "D", "E", "F", "G", "H", "I", "J", "K", "L", "M",
      "N", "O", "P", "Q", "R", "S", "T", "U", "V", "W", "X", "Y", "Z">>

LowerCase ==
    <<"a", "b", "c", "d", "e", "f", "g", "h", "i", "j", "k", "l", "m",
      "n", "o", "p", "q", "r", "s", "t", "u", "v", "w", "x", "y", "z">>

LowerChar(c) ==
    IF \E i \in 1..Len(UpperCase) : UpperCase[i] = c
    THEN LowerCase[CHOOSE i \in 1..Len(UpperCase) : UpperCase[i] = c]
    ELSE c

\* language.lower()
Lower(name) == [i \in 1..Len(name) |-> LowerChar(name[i])]

\* "in self.LANGUAGE_CONFIGS" tested on the identifier as it is, no lower()
InTableAsGiven(name) == name \in DOMAIN LANGUAGE_CONFIGS

\* self.language not in self.LANGUAGE_CONFIGS, negated
InTable(name) == Lower(name) \in DOMAIN LANGUAGE_CONFIGS

\* re.compile of the field pattern: the pattern starts with the escaped
\* start marker followed by '?', which has nothing to repeat when the marker
\* is empty
CompileRaises(config) == config.start_marker = <<>>

NoPattern == <<"unset">>

\* set_language(language) on a parser in state p (its language, config and
\* compiled pattern): the state it leaves and the exception it raises
set_language(p, name) ==
    IF ~InTable(name)
    THEN [language |-> Lower(name), language_config |-> p.language_config,
          field_pattern |-> p.field_pattern, raised |-> "ValueError"]
    ELSE IF CompileRaises(LANGUAGE_CONFIGS[Lower(name)])
    THEN [language |-> Lower(name),
          language_config |-> LANGUAGE_CONFIGS[Lower(name)],
          field_pattern |-> p.field_pattern, raised |-> "re.error"]
    ELSE [language |-> Lower(name),
          language_config |-> LANGUAGE_CONFIGS[Lower(name)],
          field_pattern |-> Lower(name), raised |-> "none"]

-----------------------------------------------------------------------------
(* One patch operation on an arbitrary target text. *)

BlockKeys == {<<"a">>, <<"b">>}

\* the words of the patch scenario: "old", "new" and "keep"
Old == <<Ch("o"), Ch("l"), Ch("d")>>
New == <<Ch("n"), Ch("e"), Ch("w")>>
Keep == <<Ch("k"), Ch("e"), Ch("e"), Ch("p")>>

\* block a holding "old", then a line "keep"
UpsertScenarioTarget ==
    <<HASH, SP, BlockOpen(<<"a">>), NL>> \o Old
        \o <<NL, HASH, SP, BlockClose(<<"a">>), NL>> \o Keep

BlockContents == {<<CX>>, <<NL, CY, NL>>, New}

TargetPieces ==
    {<<NL>>, <<CX>>} \cup {block_start(k) : k \in BlockKeys}
        \cup {block_end(k) : k \in BlockKeys}

RECURSIVE Concats(_, _)
\* every concatenation of at most n of the pieces
Concats(pieces, n) ==
    IF n = 0 THEN {<<>>}
    ELSE LET shorter == Concats(pieces, n - 1)
         IN  shorter \cup {t \o q : t \in shorter, q \in pieces}

Targets == Concats(TargetPieces, MaxPieces) \cup {UpsertScenarioTarget}

NoOp == [op |-> "none", k |-> <<>>, c |-> <<>>]

\* an attribute that was never assigned
Unset == [unset |-> TRUE]

\* no generator has run and no file handler has been called
NoIo ==
    /\ buffer = <<>>
    /\ yielded = <<>>
    /\ files = <<>>
    /\ returned = Unset

\* no parser, patcher or store has been used
Quiet ==
    /\ patch_content = <<>>
    /\ patched_content = <<>>
    /\ idx = 0
    /\ start_index = -1
    /\ end_index = -1
    /\ lastop = NoOp
    /\ fields = <<>>
    /\ snapshot = <<>>
    /\ warnings = <<>>
    /\ generated = <<>>
    /\ declared = <<>>
    /\ calls = 0
    /\ language = PYTHON
    /\ language_config = LANGUAGE_CONFIGS[PYTHON]
    /\ field_pattern = PYTHON
    /\ raised = "none"
    /\ parsed_data = Unset

Idle == Quiet /\ NoIo

InitBlock ==
    /\ pc = "ready"
    /\ content \in Targets
    /\ Idle

\* _add_or_replace_block(content, block_type, block_content)
AddOrReplaceBlock ==
    /\ pc = "ready"
    /\ \E k \in BlockKeys, c \in BlockContents :
          /\ start_index' = start_of(content, k)
          /\ end_index' = end_of(content, k)
          /\ patched_content' = add_or_replace_block(content, k, c)
          /\ lastop' = [op |-> "upsert", k |-> k, c |-> c]
    /\ pc' = "upserted"
    /\ UNCHANGED <<content, parsed_data, ioVars, patch_content, idx, storeVars, declared, parserVars>>

\* _remove_block(content, block_type)
RemoveBlock ==
    /\ pc = "ready"
    /\ \E k \in BlockKeys :
          /\ start_index' = start_of(content, k)
          /\ end_index' = end_of(content, k)
          /\ patched_content' = remove_block(content, k)
          /\ lastop' = [op |-> "remove", k |-> k, c |-> <<>>]
    /\ pc' = "removed"
    /\ UNCHANGED <<content, parsed_data, ioVars, patch_content, idx, storeVars, declared, parserVars>>

NextBlock == AddOrReplaceBlock \/ RemoveBlock

SpecBlock == InitBlock /\ [][NextBlock]_vars

-----------------------------------------------------------------------------
(* The span of a key's fenced block as the specification describes it:    *)
(* from the first opening tag to the first closing tag behind it.         *)

SpanStart(text, k) == Find(text, block_start(k))

SpanClose(text, k) ==
    IF SpanStart(text, k) = -1 THEN -1
    ELSE FindFrom(text, block_end(k), SpanStart(text, k) + Len(block_start(k)))

ContainsBlock(text, k) == SpanStart(text, k) /= -1 /\ SpanClose(text, k) /= -1

SpanEnd(text, k) == SpanClose(text, k) + Len(block_end(k))

OneNewlineIfNeeded(text) ==
    IF Len(text) > 0 /\ text[Len(text)] /= NL THEN <<NL>> ELSE <<>>

\* C2: an upsert of a key whose fenced block the target holds replaces
\* exactly the span from the opening tag through the closing tag by the
\* rendered block; the text before and behind the span is kept as it is.
C2_UpsertReplacesOnlySpan ==
    (pc = "upserted" /\ ContainsBlock(content, lastop.k)) =>
        patched_content =
            Upto(content, SpanStart(content, lastop.k))
                \o full_block(lastop.k, lastop.c)
                \o From(content, SpanEnd(content, lastop.k))

\* C3: an upsert of a key the target lacks (its opening or its closing tag
\* is absent) returns the target, then one newline exactly when the target
\* is non-empty and does not end in a newline, then the rendered block.
C3_UpsertAbsentAppends ==
    (pc = "upserted"
        /\ (Find(content, block_start(lastop.k)) = -1
             \/ Find(content, block_end(lastop.k)) = -1)) =>
        /\ patched_content =
               content \o OneNewlineIfNeeded(content)
                   \o full_block(lastop.k, lastop.c)
        /\ Upto(patched_content, Len(content)) = content

C3_Witness ==
    /\ pc = "upserted"
    /\ Find(content, block_start(lastop.k)) = -1
    /\ Find(content, block_end(lastop.k)) = -1
    /\ content /= <<>>
    /\ content[Len(content)] = CX
    /\ Len(patched_content) =
           Len(content) + 1 + Len(full_block(lastop.k, lastop.c))

\* C4: a removal deletes exactly the span from the opening tag through the
\* closing tag when the target holds the block, and returns the target
\* unchanged when the opening or the closing tag is absent.
C4_RemoveDeletesOnlySpan ==
    pc = "removed" =>
        /\ ContainsBlock(content, lastop.k) =>
               patched_content =
                   Upto(content, SpanStart(content, lastop.k))
                       \o From(content, SpanEnd(content, lastop.k))
        /\ (Find(content, block_start(lastop.k)) = -1
             \/ Find(content, block_end(lastop.k)) = -1) =>
               patched_content = content

\* C7: when both tags are found, the closing tag taken as the end of the
\* span is the first one behind the first opening tag, so the span start
\* is never greater than the span end.
C7_CloseSearchedAfterOpen ==
    (pc \in {"upserted", "removed"} /\ start_index /= -1 /\ end_index /= -1) =>
        /\ end_index = SpanClose(content, lastop.k)
        /\ start_index <= end_index

\* the number of newlines a text starts with
LeadingNewlines(text) ==
    CHOOSE n \in 0..Len(text) :
        /\ \A i \in 1..n : text[i] = NL
        /\ n < Len(text) => text[n + 1] /= NL

\* the number of newlines a text ends with
TrailingNewlines(text) ==
    CHOOSE n \in 0..Len(text) :
        /\ \A i \in (Len(text) - n + 1)..Len(text) : text[i] = NL
        /\ n < Len(text) => text[Len(text) - n] /= NL

WithoutTrailingNewlines(text) ==
    SubSeq(text, 1, Len(text) - TrailingNewlines(text))

WithoutOuterNewlines(text) ==
    SubSeq(text, LeadingNewlines(text) + 1, Len(text) - TrailingNewlines(text))

\* opening tag, newline, body, newline, closing tag
RenderedBlock(k, body) ==
    <<HASH, SP, BlockOpen(k), NL>> \o body \o <<NL, HASH, SP, BlockClose(k)>>

\* the text the upsert wrote where it put its block: in place of the old
\* block, or at the end
WrittenBlock(size) ==
    LET at == IF start_index /= -1 /\ end_index /= -1 THEN start_index
              ELSE Len(patched_content) - size
    IN  Slice(patched_content, at, at + size)

UpsertScenario ==
    (content = UpsertScenarioTarget /\ lastop.k = <<"a">> /\ lastop.c = New) =>
        patched_content =
            <<HASH, SP, BlockOpen(<<"a">>), NL>> \o New
                \o <<NL, HASH, SP, BlockClose(<<"a">>), NL>> \o Keep

\* C20: the block an upsert renders is opening tag, newline, the
\* operation's content with its trailing newlines trimmed and otherwise
\* unaltered, newline, closing tag; patching block a holding "old" and a
\* following line "keep" with Upsert(a, "new") gives the same text with
\* "old" replaced by "new" and the line "keep" intact.
C20_UpsertRendersTrimmedContent ==
    pc = "upserted" =>
        /\ LET rendered ==
                   RenderedBlock(lastop.k, WithoutTrailingNewlines(lastop.c))
           IN  WrittenBlock(Len(rendered)) = rendered
        /\ UpsertScenario

\* C20, amended: the content is rendered with its leading and its trailing
\* newlines trimmed and otherwise unaltered.
C20_UpsertTrimsBothEnds ==
    pc = "upserted" =>
        /\ LET rendered ==
                   RenderedBlock(lastop.k, WithoutOuterNewlines(lastop.c))
           IN  WrittenBlock(Len(rendered)) = rendered
        /\ UpsertScenario

C20_Witness ==
    /\ pc = "upserted"
    /\ content = UpsertScenarioTarget
    /\ lastop.k = <<"a">>
    /\ lastop.c = New
    /\ Len(patched_content) = Len(content)

\* C27: an upsert is idempotent: for every target, key k and content c,
\* applying _add_or_replace_block(., k, c) to the result of
\* _add_or_replace_block(target, k, c) gives that result again.
C27_UpsertIdempotent ==
    pc = "upserted" =>
        add_or_replace_block(patched_content, lastop.k, lastop.c)
            = patched_content

\* C28: after an upsert of (k, c) into any target, the first opening tag
\* of k in the result is followed at once by newline, the trimmed c,
\* newline and the closing tag of k; targets that hold an opening tag of k
\* and no closing tag of k are included.
C28_UpsertFirstBlockIsNew ==
    pc = "upserted" =>
        /\ start_of(patched_content, lastop.k) /= -1
        /\ StartsWithAt(patched_content, full_block(lastop.k, lastop.c),
                        start_of(patched_content, lastop.k))

-----------------------------------------------------------------------------
(* A patch document applied to a target: CodePatcherCML.__init__ has read *)
(* the patch file into patch_content, _process_patch runs its loop.       *)

PatchKeys ==
    {<<"a">>, <<"remove", ".", "a">>, <<"a", ".", "remove">>,
     <<"remove", "_x">>}

PatchBodies == {<<CX>>, <<HASH, SP, CY>>}

PatchRegions == [k : PatchKeys, c : PatchBodies]

RECURSIVE SeqsUpTo(_, _)
\* every sequence of at most n elements of S
SeqsUpTo(S, n) ==
    IF n = 0 THEN {<<>>}
    ELSE LET shorter == SeqsUpTo(S, n - 1)
         IN  shorter \cup {Append(t, x) : t \in shorter, x \in S}

\* a region as a patch file writes it: fenced tags on lines of their own
PatchRegionText(r) ==
    block_start(r.k) \o <<NL>> \o r.c \o <<NL>> \o block_end(r.k)

RECURSIVE PatchText(_)
\* the patch file: its regions in the order declared, one after another
PatchText(regions) ==
    IF regions = <<>> THEN <<>>
    ELSE IF Len(regions) = 1 THEN PatchRegionText(regions[1])
    ELSE PatchRegionText(regions[1]) \o <<NL>> \o PatchText(Tail(regions))

PatchTargets ==
    Concats({<<NL>>, <<CX>>, full_block(<<"a">>, <<CX, CX>>)}, MaxTargetBlocks)

InitPatch ==
    /\ pc = "constructed"
    /\ declared \in SeqsUpTo(PatchRegions, MaxOps)
    /\ patch_content = parse_code_blocks(PatchText(declared))
    /\ content \in PatchTargets
    /\ patched_content = <<>>
    /\ idx = 0
    /\ start_index = -1
    /\ end_index = -1
    /\ lastop = NoOp
    /\ fields = <<>>
    /\ snapshot = <<>>
    /\ warnings = <<>>
    /\ generated = <<>>
    /\ calls = 0
    /\ language = PYTHON
    /\ language_config = LANGUAGE_CONFIGS[PYTHON]
    /\ field_pattern = PYTHON
    /\ raised = "none"
    /\ parsed_data = Unset
    /\ NoIo

\* _process_patch: patched_content = original_content
ProcessPatchBegin ==
    /\ pc = "constructed"
    /\ pc' = "patching"
    /\ patched_content' = content
    /\ idx' = 0
    /\ UNCHANGED <<content, parsed_data, ioVars, patch_content, start_index, end_index, lastop,
                   storeVars, declared, parserVars>>

\* _process_patch: one iteration of the loop
ProcessPatchStep ==
    /\ pc = "patching"
    /\ idx < Len(patch_content)
    /\ LET item == item_after(patch_content, idx)
           o == Classify(item)
       IN  /\ lastop' = o
           /\ start_index' = start_of(patched_content, o.k)
           /\ end_index' = end_of(patched_content, o.k)
           /\ patched_content' = ApplyItem(patched_content, item)
    /\ idx' = idx + 1
    /\ UNCHANGED <<pc, content, parsed_data, ioVars, patch_content, storeVars, declared, parserVars>>

\* _process_patch: return patched_content
ProcessPatchReturn ==
    /\ pc = "patching"
    /\ idx = Len(patch_content)
    /\ pc' = "patched"
    /\ UNCHANGED <<content, parsed_data, ioVars, patchVars, lastop, storeVars, declared, parserVars>>

NextPatch == ProcessPatchBegin \/ ProcessPatchStep \/ ProcessPatchReturn

SpecPatch == InitPatch /\ [][NextPatch]_vars

\* what parsing a declared region captures: the text between its tags
DeclaredItem(r) == [k |-> r.k, c |-> <<NL>> \o r.c \o <<NL>>]

RECURSIVE LeftFold(_, _)
\* the per-operation functions folded over the regions, first to last
LeftFold(regions, text) ==
    IF regions = <<>> THEN text
    ELSE LeftFold(Tail(regions), ApplyItem(text, DeclaredItem(Head(regions))))

\* C5: the operations are applied in the order the patch document declares
\* them, each to the text all earlier ones produced: after idx iterations
\* the text is the left-to-right fold of the first idx declared operations
\* over the target, and the loop returns after the last one.
C5_AppliedInDeclaredOrder ==
    pc \in {"patching", "patched"} =>
        /\ patched_content = LeftFold(Upto(declared, idx), content)
        /\ pc = "patched" => idx = Len(declared)

C5_Witness ==
    /\ pc = "patched"
    /\ Len(declared) = 2
    /\ declared[1] = [k |-> <<"a">>, c |-> <<CX>>]
    /\ declared[2] = [k |-> <<"a">>, c |-> <<HASH, SP, CY>>]
    /\ Find(patched_content, full_block(<<"a">>, <<HASH, SP, CY>>)) /= -1
    /\ Find(patched_content, full_block(<<"a">>, <<CX>>)) = -1

\* the segment of a key before its first '.'
LeadingSegment(key) ==
    LET dots == {i \in 1..Len(key) : key[i] = "."}
    IN  IF dots = {} THEN key
        ELSE SubSeq(key, 1, (CHOOSE i \in dots : \A j \in dots : i <= j) - 1)

\* the key behind its leading segment and that segment's '.'
AfterLeadingSegment(key) == From(key, Len(LeadingSegment(key)) + 1)

\* C6: a patch region is a Remove only when the leading segment of its key
\* is 'remove', and then of the key with that marker stripped; every other
\* region is an Upsert of its own key with its own content.
C6_RemoveOnlyByLeadingMarker ==
    (pc = "patching" /\ idx > 0) =>
        LET item == patch_content[idx]
        IN  IF LeadingSegment(item.k) = <<"remove">>
            THEN lastop.op = "remove" /\ lastop.k = AfterLeadingSegment(item.k)
            ELSE lastop = [op |-> "upsert", k |-> item.k, c |-> item.c]

-----------------------------------------------------------------------------
(* enhanced-cml-parser.py: the field pattern compiled for 'python' (start *)
(* marker '#', no end marker) with re.DOTALL.  The pattern is, in order:  *)
(* optionally '#'; any whitespace; the opening tag, whose key and         *)
(* optional params clause are captured; any text, as little as possible,  *)
(* captured; optionally '#'; any whitespace; the closing tag of the       *)
(* captured key; whitespace, as little as possible (so none).             *)

\* "[[cc.K]]" (clause "none") or "[[cc.K, params=...]]"; the clause is a
\* literal that evaluates ("lit"), one on which ast.literal_eval raises
\* SyntaxError or ValueError ("bad"), or one on which it raises TypeError
\* ("unhashable", such as {[1]: 2})
FieldOpen(key, clause) == [t |-> "open", k |-> key, p |-> clause]

\* "[[/cc.K]]"
FieldClose(key) == [t |-> "close", k |-> key, p |-> "none"]

\* a tag as the field pattern reads it: "[[cc.block.K]]" is the opening
\* tag of the key block.K
AsFieldTag(tok) ==
    CASE tok.t = "bopen" -> FieldOpen(<<"block", ".">> \o tok.k, "none")
      [] tok.t = "bclose" -> FieldClose(<<"block", ".">> \o tok.k)
      [] OTHER -> tok

\* optional '#', any whitespace, then a tag of kind t: the tag's offset, or -1
FieldTagAt(s, i, t) ==
    LET q == IF i < Len(s) /\ At(s, i) = HASH THEN i + 1 ELSE i
        r == SkipSpace(s, q)
    IN  IF r < Len(s) /\ AsFieldTag(At(s, r)).t = t THEN r ELSE -1

\* the closing part of the pattern at offset i: the tag's offset, or -1
FieldCloseAt(s, i, key) ==
    LET r == FieldTagAt(s, i, "close")
    IN  IF r /= -1 /\ AsFieldTag(At(s, r)).k = key THEN r ELSE -1

\* the lazy capture: the lowest offset >= from where the closing part matches
LazyFieldEnd(s, from, key) ==
    LET hits == {c \in from..(Len(s) - 1) : FieldCloseAt(s, c, key) /= -1}
    IN  IF hits = {} THEN -1
        ELSE CHOOSE c \in hits : \A d \in hits : c <= d

NoFieldMatch ==
    [ok |-> FALSE, key |-> <<>>, clause |-> "none", content |-> <<>>,
     open |-> -1, close |-> -1, end |-> -1]

\* one match attempt starting at offset p
FieldMatchAt(s, p) ==
    LET o == FieldTagAt(s, p, "open")
    IN  IF o = -1 THEN NoFieldMatch
        ELSE LET tag == AsFieldTag(At(s, o))
                 c == LazyFieldEnd(s, o + 1, tag.k)
             IN  IF c = -1 THEN NoFieldMatch
                 ELSE [ok |-> TRUE, key |-> tag.k, clause |-> tag.p,
                       content |-> Slice(s, o + 1, c),
                       open |-> o, close |-> FieldCloseAt(s, c, tag.k),
                       end |-> FieldCloseAt(s, c, tag.k) + 1]

RECURSIVE FindFieldsUntilUnclosed(_, _)
FindFieldsUntilUnclosed(s, p) ==
    IF p >= Len(s) THEN <<>>
    ELSE LET m == FieldMatchAt(s, p)
         IN  IF m.ok THEN <<m>> \o FindFieldsUntilUnclosed(s, m.end)
             ELSE IF FieldTagAt(s, p, "open") /= -1 THEN <<>>
             ELSE FindFieldsUntilUnclosed(s, p + 1)

FindFirstField(s, p) ==
    LET hits == {q \in p..(Len(s) - 1) : FieldMatchAt(s, q).ok}
    IN  IF hits = {} THEN <<>>
        ELSE <<FieldMatchAt(s, CHOOSE q \in hits : \A r \in hits : q <= r)>>

RECURSIVE FindFieldsOverlapping(_, _)
FindFieldsOverlapping(s, p) ==
    IF p >= Len(s) THEN <<>>
    ELSE LET m == FieldMatchAt(s, p)
         IN  IF m.ok THEN <<m>> \o FindFieldsOverlapping(s, m.open + 1)
             ELSE FindFieldsOverlapping(s, p + 1)

RECURSIVE FindAllFields(_, _)
\* field_pattern.finditer(content): leftmost, non-overlapping, in one pass
FindAllFields(s, p) ==
    IF p >= Len(s) THEN <<>>
    ELSE LET m == FieldMatchAt(s, p)
         IN  IF m.ok THEN <<m>> \o FindAllFields(s, m.end)
             ELSE FindAllFields(s, p + 1)

-----------------------------------------------------------------------------
(* enhanced-cml-parser.py: the store.  self.fields is a dict, which keeps *)
(* insertion order: a sequence of entries, dk the dictionary key and f    *)
(* the CMLField held under it.                                            *)

EmptyParams == "{}"
LitParams == "{'x': 1}"

\* CMLField(key, content, params)
CMLField(key, text, params) == [key |-> key, content |-> text, params |-> params]

Keys(d) == {d[i].dk : i \in 1..Len(d)}

IndexOf(d, key) == CHOOSE i \in 1..Len(d) : d[i].dk = key

\* d.get(key), for a key that is held
Get(d, key) == d[IndexOf(d, key)].f

\* d[key] = f: in place when the key is held, at the end when it is not
DictSet(d, key, f) ==
    IF key \in Keys(d)
    THEN [d EXCEPT ![IndexOf(d, key)] = [dk |-> key, f |-> f]]
    ELSE Append(d, [dk |-> key, f |-> f])

\* d.pop(key) / del d[key], for a key that is held
DictPop(d, key) ==
    LET i == IndexOf(d, key)
    IN  SubSeq(d, 1, i - 1) \o SubSeq(d, i + 1, Len(d))

Warn(kind, key) == [w |-> kind, k |-> key]

\* ast.literal_eval(params_str) inside the try, then "params or {}"
EvalParams(clause) == IF clause = "lit" THEN LitParams ELSE EmptyParams

\* the exception ast.literal_eval raises on the clause
EvalError(clause) ==
    CASE clause = "bad" -> "SyntaxError"
      [] clause = "unhashable" -> "TypeError"
      [] OTHER -> "none"

\* except (SyntaxError, ValueError)
Caught(error) == error \in {"SyntaxError", "ValueError"}

\* what the try statement lets through to the caller
Escapes(error) == error /= "none" /\ ~Caught(error)

RECURSIVE StoreMatches(_, _)
\* the loop of parse_content over the matches, from the state acc; an
\* exception that escapes ends the loop with the store as it is
StoreMatches(ms, acc) ==
    IF ms = <<>> THEN acc
    ELSE LET m == Head(ms)
             e == EvalError(m.clause)
             w1 == IF e /= "none" /\ ~Escapes(e)
                   THEN Append(acc.warnings, Warn("invalid_params", m.key))
                   ELSE acc.warnings
             w2 == IF m.key \in Keys(acc.fields)
                   THEN Append(w1, Warn("duplicate", m.key))
                   ELSE w1
         IN  IF Escapes(e)
             THEN [acc EXCEPT !.raised = e]
             ELSE StoreMatches(Tail(ms),
                 [fields |-> DictSet(acc.fields, m.key,
                                 CMLField(m.key, m.content, EvalParams(m.clause))),
                  warnings |-> w2, raised |-> "none"])

\* parse_content(content): self.fields = {} and the loop; the warnings are
\* those printed by this call
parse_content(text) ==
    StoreMatches(FindAllFields(text, 0),
                 [fields |-> <<>>, warnings |-> <<>>, raised |-> "none"])

NONE == <<[t |-> "None", k |-> <<>>, p |-> "None"]>>

\* get_field_content(field_key): the content, or None
get_field_content(d, key) ==
    IF key \in Keys(d) THEN Get(d, key).content ELSE NONE

\* the entry moved without "field.key = new_key"
change_field_name_stale_key(d, old_key, new_key) ==
    IF old_key \in Keys(d)
    THEN DictSet(DictPop(d, old_key), new_key, Get(d, old_key))
    ELSE d

\* change_field_name(old_key, new_key): pop, set the key, store again
change_field_name(d, old_key, new_key) ==
    IF old_key \in Keys(d)
    THEN DictSet(DictPop(d, old_key), new_key,
                 [Get(d, old_key) EXCEPT !.key = new_key])
    ELSE d

\* params[param_name] = value, for the name 'x' and the value 1
SetItem(params) == LitParams

\* set_param_value(field_key, 'x', 1)
set_param_value(d, key) ==
    IF key \in Keys(d)
    THEN [d EXCEPT ![IndexOf(d, key)].f.params = SetItem(@)]
    ELSE d

\* delete_field(field_key)
delete_field(d, key) == IF key \in Keys(d) THEN DictPop(d, key) ELSE d

\* "params or {}": None and the empty mapping both give the empty mapping
OrEmpty(params) == IF params = "None" THEN EmptyParams ELSE params

add_field_overwrites(d, key, text, params) ==
    DictSet(d, key, CMLField(key, text, OrEmpty(params)))

\* add_field(field_key, content, params)
add_field(d, key, text, params) ==
    IF key \in Keys(d) THEN d
    ELSE DictSet(d, key, CMLField(key, text, OrEmpty(params)))

replace_or_create(d, key, text) ==
    IF key \in Keys(d)
    THEN [d EXCEPT ![IndexOf(d, key)].f.content = text]
    ELSE DictSet(d, key, CMLField(key, text, EmptyParams))

\* replace_field_content(field_key, new_content)
replace_field_content(d, key, text) ==
    IF key \in Keys(d)
    THEN [d EXCEPT ![IndexOf(d, key)].f.content = text]
    ELSE d

\* f", params={field.params}" if field.params else "": the clause repr writes
ReprClause(params) == IF params = EmptyParams THEN "none" ELSE "lit"

drop_trailing_newlines(text) == RStripNewlines(text)

\* field.content[:-1] if field.content.endswith('\n') else field.content
drop_one_trailing_newline(text) ==
    IF EndsWithNewline(text) THEN SubSeq(text, 1, Len(text) - 1) ELSE text

\* generate_cml_field(field) under self.language_config
generate_cml_field(config, f) ==
    config.start_marker \o <<SP, FieldOpen(f.key, ReprClause(f.params))>>
        \o drop_one_trailing_newline(f.content)
        \o <<NL>> \o config.start_marker \o <<SP, FieldClose(f.key)>>
        \o config.end_marker

RECURSIVE generate_cml_content(_, _)
\* "\n\n".join(generate_cml_field(field) for field in fields.values())
generate_cml_content(config, d) ==
    IF d = <<>> THEN <<>>
    ELSE IF Len(d) = 1 THEN generate_cml_field(config, d[1].f)
    ELSE generate_cml_field(config, d[1].f) \o <<NL, NL>>
             \o generate_cml_content(config, Tail(d))

-----------------------------------------------------------------------------
(* A CMLParser('python') and its caller: a document is parsed, then read, *)
(* renamed in, or written back and parsed again.                          *)

KA == <<"a">>
KB == <<"b">>
KC == <<"c">>

FenceOpen(key, clause) == <<HASH, SP, FieldOpen(key, clause)>>
FenceClose(key) == <<HASH, SP, FieldClose(key)>>

\* whole regions of key b: tags on their own lines; a params clause and the
\* content on the tag's line; a params clause that does not evaluate, with
\* an exception the parser catches and with one it does not
RegionB1 == FenceOpen(KB, "none") \o <<NL, CY, NL>> \o FenceClose(KB)
RegionB2 == FenceOpen(KB, "lit") \o <<CX>> \o FenceClose(KB)
RegionB3 == FenceOpen(KB, "bad") \o <<NL>> \o FenceClose(KB)
RegionB4 == FenceOpen(KB, "unhashable") \o <<CX>> \o FenceClose(KB)

DocPieces ==
    {<<NL>>, <<CX>>, FenceOpen(KA, "none"), FenceOpen(KA, "lit"),
     FenceClose(KA), <<FieldClose(KA)>>, RegionB1, RegionB2, RegionB3,
     RegionB4}

Docs == Concats(DocPieces, MaxDocPieces)

InitStore ==
    /\ pc = "ready"
    /\ content \in Docs
    /\ Idle

\* parse_content(content), of the document or of the text generated last
ParseContent ==
    /\ pc \in {"ready", "generated"}
    /\ LET r == parse_content(IF pc = "ready" THEN content ELSE generated)
       IN  /\ fields' = r.fields
           /\ warnings' = warnings \o r.warnings
           /\ raised' = r.raised
           /\ pc' = IF r.raised /= "none" THEN "raised"
                    ELSE IF pc = "ready" THEN "parsed" ELSE "reparsed"
    /\ snapshot' = fields
    /\ lastop' = [op |-> "parse", k |-> <<>>, c |-> <<>>]
    /\ UNCHANGED <<content, parsed_data, ioVars, patchVars, generated, declared, calls, language,
                   language_config, field_pattern>>

\* get_field_content(field_key)
GetFieldContent ==
    /\ pc = "parsed"
    /\ \E key \in {KA, KB} :
          /\ lastop' = [op |-> "get", k |-> key,
                        c |-> get_field_content(fields, key)]
          /\ warnings' = IF key \in Keys(fields) THEN warnings
                         ELSE Append(warnings, Warn("not_found", key))
    /\ pc' = "got"
    /\ UNCHANGED <<content, parsed_data, ioVars, patchVars, fields, snapshot, generated, declared, parserVars>>

\* change_field_name(old_key, new_key)
ChangeFieldName ==
    /\ pc = "parsed"
    /\ \E old_key \in {KA, KB}, new_key \in {KB, KC} :
          /\ fields' = change_field_name(fields, old_key, new_key)
          /\ warnings' = IF old_key \in Keys(fields) THEN warnings
                         ELSE Append(warnings, Warn("not_found", old_key))
          /\ lastop' = [op |-> "rename", k |-> old_key, c |-> new_key]
    /\ snapshot' = fields
    /\ pc' = "renamed"
    /\ UNCHANGED <<content, parsed_data, ioVars, patchVars, generated, declared, parserVars>>

\* generate_cml_content()
GenerateCmlContent ==
    /\ pc \in {"parsed", "renamed"}
    /\ generated' = generate_cml_content(language_config, fields)
    /\ pc' = IF pc = "parsed" THEN "generated" ELSE "generated_renamed"
    /\ UNCHANGED <<content, parsed_data, ioVars, patchVars, lastop, fields, snapshot, warnings,
                   declared, parserVars>>

NextStore ==
    ParseContent \/ GetFieldContent \/ ChangeFieldName \/ GenerateCmlContent

SpecStore == InitStore /\ [][NextStore]_vars

IsTag(tok) == tok.t \in {"open", "close"}

TagCount(text) == Cardinality({i \in 1..Len(text) : IsTag(text[i])})

\* every tag of the document opens or closes one of its regions, so that no
\* region's content holds a tag and no tag is left unmatched
WellFormed(text) == TagCount(text) = 2 * Len(FindAllFields(text, 0))

\* the ordered (key, content, params) of a store
Triples(d) ==
    [i \in 1..Len(d) |-> <<d[i].f.key, d[i].f.content, d[i].f.params>>]

\* C1: for a well-formed document, parsing it, serializing the store and
\* parsing that output again yields the same ordered (key, content, params)
\* as parsing the document.
C1_RoundTrip ==
    (pc = "reparsed" /\ WellFormed(content)) =>
        Triples(fields) = Triples(snapshot)

OffsetsOf(text, tok) == {i \in 0..(Len(text) - 1) : At(text, i) = tok}

OpensOf(text, key) ==
    {i \in 0..(Len(text) - 1) : At(text, i).t = "open" /\ At(text, i).k = key}

KeyMatches(text, key) ==
    LET IsKey(m) == m.key = key
    IN  SelectSeq(FindAllFields(text, 0), IsKey)

\* the key is matched once, by the only opening and the only closing tag
\* the document holds for it
OccursOnce(text, key) ==
    /\ Len(KeyMatches(text, key)) = 1
    /\ Cardinality(OpensOf(text, key)) = 1
    /\ Cardinality(OffsetsOf(text, FieldClose(key))) = 1

\* where a closing tag starts: at its '#' when it is fence-prefixed, at the
\* tag itself when it is bare
ClosingTagStart(text, ci) ==
    LET hs == {h \in 0..(ci - 1) :
                  At(text, h) = HASH /\ SkipSpace(text, h + 1) = ci}
    IN  IF hs = {} THEN ci ELSE CHOOSE h \in hs : TRUE

\* C8: when key k occurs exactly once, get_field_content(k) after
\* parse_content is exactly the text between the end of k's opening tag and
\* the start of k's closing tag, bare or fence-prefixed.
C8_GetReturnsExactSubstring ==
    (pc = "got" /\ OccursOnce(content, lastop.k)) =>
        LET oi == CHOOSE i \in OpensOf(content, lastop.k) : TRUE
            ci == CHOOSE i \in OffsetsOf(content, FieldClose(lastop.k)) : TRUE
        IN  lastop.c = Slice(content, oi + 1, ClosingTagStart(content, ci))

HasWarning(kind, key) ==
    \E i \in 1..Len(warnings) : warnings[i] = Warn(kind, key)

\* C9: when the document holds key k as two matched regions with different
\* content, the store holds exactly one region for k, with the second
\* occurrence's content and params, a duplicate-key warning is printed and
\* parse_content raises no error.
C9_DuplicateKeyLastWins ==
    (pc \in {"parsed", "raised"} /\ lastop.op = "parse") =>
        \A key \in {KA, KB} :
            LET ms == KeyMatches(content, key)
            IN  (Len(ms) = 2 /\ ms[1].content /= ms[2].content) =>
                    /\ raised = "none"
                    /\ Cardinality({i \in 1..Len(fields) : fields[i].dk = key}) = 1
                    /\ Get(fields, key).key = key
                    /\ Get(fields, key).content = ms[2].content
                    /\ Get(fields, key).params =
                           (IF ms[2].clause = "lit" THEN LitParams ELSE EmptyParams)
                    /\ HasWarning("duplicate", key)

\* the store with the region keyed old_key re-keyed where it stands
RenamedInPlace(d, old_key, new_key) ==
    [d EXCEPT ![IndexOf(d, old_key)] =
        [dk |-> new_key, f |-> [Get(d, old_key) EXCEPT !.key = new_key]]]

\* C10: renaming a held key to a key not yet held keeps the region's place
\* in the store order: the text generated after the rename is the text of
\* the store before it with that region re-keyed at the same index.
C10_RenameKeepsPosition ==
    (pc = "generated_renamed" /\ lastop.k \in Keys(snapshot)
        /\ lastop.c \notin Keys(snapshot)) =>
        generated = generate_cml_content(language_config,
                            RenamedInPlace(snapshot, lastop.k, lastop.c))

\* the last match of the document that carries the key
LastMatchOf(ms, key) ==
    ms[CHOOSE i \in 1..Len(ms) :
           ms[i].key = key /\ \A j \in (i + 1)..Len(ms) : ms[j].key /= key]

Unparsable(clause) == clause \in {"bad", "unhashable"}

\* C18: a params clause that cannot be parsed as a literal never makes
\* parse_content fail: no error is raised, a warning is printed for the
\* region, the region is stored under its key with its content and empty
\* params, and every other matched region is stored as well.
C18_BadParamsDowngraded ==
    (pc \in {"parsed", "raised"} /\ lastop.op = "parse") =>
        LET ms == FindAllFields(content, 0)
        IN  (\E i \in 1..Len(ms) : Unparsable(ms[i].clause)) =>
                /\ raised = "none"
                /\ Keys(fields) = {ms[i].key : i \in 1..Len(ms)}
                /\ \A i \in 1..Len(ms) :
                       Unparsable(ms[i].clause) =>
                           HasWarning("invalid_params", ms[i].key)
                /\ \A key \in Keys(fields) :
                       LET m == LastMatchOf(ms, key)
                       IN  /\ Get(fields, key).content = m.content
                           /\ Unparsable(m.clause) =>
                                  Get(fields, key).params = EmptyParams

-----------------------------------------------------------------------------
(* A CMLParser constructed for a language, its store empty, and a caller  *)
(* that fills and edits the store through its methods and writes it out.  *)

MaxCalls == 3

OpsLanguages == {PYTHON, HTML}
OpsKeys == {KA, KB}
OpsNewKeys == {KB, KC}
OpsContents == {<<CX>>, <<CY, NL, NL>>}
OpsNewContents == {<<>>, <<NL>>}
OpsParams == {"None", LitParams}

Unconstructed ==
    [language_config |-> LanguageConfig(<<>>, <<>>), field_pattern |-> NoPattern]

\* CMLParser(language): self.fields = {} and set_language(language)
InitOps ==
    /\ pc = "constructed"
    /\ content = <<>>
    /\ patch_content = <<>>
    /\ patched_content = <<>>
    /\ idx = 0
    /\ start_index = -1
    /\ end_index = -1
    /\ lastop = NoOp
    /\ fields = <<>>
    /\ snapshot = <<>>
    /\ warnings = <<>>
    /\ generated = <<>>
    /\ declared = <<>>
    /\ calls = 0
    /\ raised = "none"
    /\ parsed_data = Unset
    /\ NoIo
    /\ \E name \in OpsLanguages :
          LET r == set_language(Unconstructed, name)
          IN  /\ r.raised = "none"
              /\ language = r.language
              /\ language_config = r.language_config
              /\ field_pattern = r.field_pattern

\* the caller may call another store method
Callable == pc /= "generate_cml_content" /\ calls < MaxCalls

OpsFrame ==
    /\ calls' = calls + 1
    /\ snapshot' = fields
    /\ UNCHANGED <<content, parsed_data, ioVars, patchVars, generated, declared, language,
                   language_config, field_pattern, raised>>

\* add_field(field_key, content, params)
AddField ==
    /\ Callable
    /\ \E key \in OpsKeys, text \in OpsContents, params \in OpsParams :
          /\ fields' = add_field(fields, key, text, params)
          /\ warnings' = IF key \in Keys(fields)
                         THEN Append(warnings, Warn("exists", key))
                         ELSE warnings
          /\ lastop' = [op |-> "add", k |-> key, c |-> text, params |-> params]
    /\ pc' = "add_field"
    /\ OpsFrame

\* set_param_value(field_key, 'x', 1)
SetParamValue ==
    /\ Callable
    /\ \E key \in OpsKeys :
          /\ fields' = set_param_value(fields, key)
          /\ warnings' = IF key \in Keys(fields) THEN warnings
                         ELSE Append(warnings, Warn("not_found", key))
          /\ lastop' = [op |-> "set_param", k |-> key, c |-> <<>>,
                        params |-> LitParams]
    /\ pc' = "set_param_value"
    /\ OpsFrame

\* change_field_name(old_key, new_key)
ChangeFieldNameOps ==
    /\ Callable
    /\ \E old_key \in OpsKeys, new_key \in OpsNewKeys :
          /\ fields' = change_field_name(fields, old_key, new_key)
          /\ warnings' = IF old_key \in Keys(fields) THEN warnings
                         ELSE Append(warnings, Warn("not_found", old_key))
          /\ lastop' = [op |-> "rename", k |-> old_key, c |-> new_key,
                        params |-> "None"]
    /\ pc' = "change_field_name"
    /\ OpsFrame

\* replace_field_content(field_key, new_content)
ReplaceFieldContent ==
    /\ Callable
    /\ \E key \in OpsKeys, text \in OpsNewContents :
          /\ fields' = replace_field_content(fields, key, text)
          /\ warnings' = IF key \in Keys(fields) THEN warnings
                         ELSE Append(warnings, Warn("not_found", key))
          /\ lastop' = [op |-> "replace", k |-> key, c |-> text,
                        params |-> "None"]
    /\ pc' = "replace_field_content"
    /\ OpsFrame

\* delete_field(field_key)
DeleteField ==
    /\ Callable
    /\ \E key \in OpsKeys :
          /\ fields' = delete_field(fields, key)
          /\ warnings' = IF key \in Keys(fields) THEN warnings
                         ELSE Append(warnings, Warn("not_found", key))
          /\ lastop' = [op |-> "delete", k |-> key, c |-> <<>>,
                        params |-> "None"]
    /\ pc' = "delete_field"
    /\ OpsFrame

\* generate_cml_content()
GenerateOps ==
    /\ pc /= "generate_cml_content"
    /\ generated' = generate_cml_content(language_config, fields)
    /\ pc' = "generate_cml_content"
    /\ UNCHANGED <<content, parsed_data, ioVars, patchVars, lastop, fields, snapshot, warnings,
                   declared, parserVars>>

NextOps ==
    \/ AddField
    \/ SetParamValue
    \/ ChangeFieldNameOps
    \/ ReplaceFieldContent
    \/ DeleteField
    \/ GenerateOps

SpecOps == InitOps /\ [][NextOps]_vars

\* the region add_field is to store for its arguments
AddedRegion(op) ==
    [dk |-> op.k,
     f |-> [key |-> op.k, content |-> op.c,
            params |-> IF op.params = "None" THEN EmptyParams ELSE op.params]]

\* C11: add_field(k, content, params) never overwrites: when k is held the
\* store is left as it is and a warning is printed; when k is not held the
\* region (k, content, params) is appended to the store order and every
\* other region is left as it is.
C11_AddNeverOverwrites ==
    [][(pc' = "add_field" /\ calls' = calls + 1) =>
          IF lastop'.k \in Keys(fields)
          THEN /\ fields' = fields
               /\ warnings' = Append(warnings, Warn("exists", lastop'.k))
          ELSE fields' = Append(fields, AddedRegion(lastop'))]_vars

C11_Witness ==
    /\ pc = "add_field"
    /\ lastop.k \in Keys(snapshot)
    /\ Get(snapshot, lastop.k).content /= lastop.c
    /\ fields = snapshot
    /\ HasWarning("exists", lastop.k)

MissingKeyMutators ==
    {"set_param_value", "change_field_name", "replace_field_content",
     "delete_field"}

\* C12: set_param_value, change_field_name, replace_field_content and
\* delete_field called with a key the store does not hold leave the whole
\* store as it is, raise no error and print a warning, whatever store
\* operations came before.
C12_MissingKeyIsNoOp ==
    [][(pc' \in MissingKeyMutators /\ calls' = calls + 1
            /\ lastop'.k \notin Keys(fields)) =>
          /\ fields' = fields
          /\ raised' = "none"
          /\ warnings' = Append(warnings, Warn("not_found", lastop'.k))]_vars

C12_Witness ==
    /\ pc = "replace_field_content"
    /\ calls = 3
    /\ lastop.k \notin Keys(snapshot)
    /\ snapshot /= <<>>
    /\ fields = snapshot
    /\ HasWarning("not_found", lastop.k)

\* a region as the specification writes it out
RenderedRegion(config, e) ==
    config.start_marker
        \o <<SP, [t |-> "open", k |-> e.dk,
                  p |-> IF e.f.params = EmptyParams THEN "none" ELSE "lit"]>>
        \o (IF EndsWithNewline(e.f.content)
            THEN SubSeq(e.f.content, 1, Len(e.f.content) - 1)
            ELSE e.f.content)
        \o <<NL>> \o config.start_marker
        \o <<SP, [t |-> "close", k |-> e.dk, p |-> "none"]>>
        \o config.end_marker

RECURSIVE RenderedUpTo(_, _, _)
\* the first n regions of the store, a blank line between consecutive ones
RenderedUpTo(config, d, n) ==
    IF n = 0 THEN <<>>
    ELSE IF n = 1 THEN RenderedRegion(config, d[1])
    ELSE RenderedUpTo(config, d, n - 1) \o <<NL, NL>>
             \o RenderedRegion(config, d[n])

\* C13: after any sequence of store operations generate_cml_content writes
\* every region held, once each and in store order, each as fence prefix,
\* space, opening tag (with a params clause only when params is not empty),
\* content less one trailing newline if it has one, newline, fence prefix,
\* space, closing tag, fence suffix; consecutive regions are separated by
\* one blank line and an empty store gives the empty string.
C13_GenerateRendersStore ==
    pc = "generate_cml_content" =>
        generated = RenderedUpTo(language_config, fields, Len(fields))

C13_Witness ==
    /\ pc = "generate_cml_content"
    /\ language = HTML
    /\ Len(fields) = 2
    /\ fields[1].f.params = LitParams
    /\ fields[1].f.content = <<CY, NL, NL>>
    /\ fields[2].f.params = EmptyParams
    /\ Len(generated) > 0

\* the call renamed a region onto the key of another region
RenamedOntoHeldKey ==
    /\ pc = "change_field_name"
    /\ lastop.k \in Keys(snapshot)
    /\ lastop.c \in Keys(snapshot)
    /\ lastop.k /= lastop.c

\* C29: change_field_name(old, new) with old held and new held by another
\* region loses no region: afterwards exactly one region is held under new,
\* with old's content and params, old is not held, every other region is as
\* it was and the store holds as many regions as before the call.
C29_RenameOntoHeldKeyLosesNothing ==
    RenamedOntoHeldKey =>
        /\ Cardinality({i \in 1..Len(fields) : fields[i].dk = lastop.c}) = 1
        /\ Get(fields, lastop.c).content = Get(snapshot, lastop.k).content
        /\ Get(fields, lastop.c).params = Get(snapshot, lastop.k).params
        /\ lastop.k \notin Keys(fields)
        /\ \A key \in Keys(snapshot) \ {lastop.k, lastop.c} :
              key \in Keys(fields) /\ Get(fields, key) = Get(snapshot, key)
        /\ Len(fields) = Len(snapshot)

-----------------------------------------------------------------------------
(* A caller that holds a CMLParser('python') and a document: it parses    *)
(* the document and edits the store, in any order.                        *)

MaxSessionPieces == 2

RegionA1 == FenceOpen(KA, "none") \o <<CX>> \o FenceClose(KA)

SessionPieces == {RegionA1, RegionB2, RegionB4}

SessionDocs == Concats(SessionPieces, MaxSessionPieces)

InitSession ==
    /\ pc = "constructed"
    /\ content \in SessionDocs
    /\ Idle

\* parse_content(content); raised keeps the exception the caller caught
ParseContentOps ==
    /\ Callable
    /\ LET r == parse_content(content)
       IN  /\ fields' = r.fields
           /\ warnings' = warnings \o r.warnings
           /\ raised' = r.raised
    /\ lastop' = [op |-> "parse", k |-> <<>>, c |-> <<>>, params |-> "None"]
    /\ pc' = "parse_content"
    /\ calls' = calls + 1
    /\ snapshot' = fields
    /\ UNCHANGED <<content, parsed_data, ioVars, patchVars, generated, declared, language,
                   language_config, field_pattern>>

NextSession ==
    \/ ParseContentOps
    \/ AddField
    \/ SetParamValue
    \/ ChangeFieldNameOps
    \/ ReplaceFieldContent
    \/ DeleteField

SpecSession == InitSession /\ [][NextSession]_vars

\* C26: after any sequence of parse_content, add_field, change_field_name,
\* replace_field_content, set_param_value and delete_field calls, every
\* region held under dictionary key k has its key attribute equal to k.
C26_StoreKeyIsFieldKey ==
    \A i \in 1..Len(fields) : fields[i].f.key = fields[i].dk

C26_Witness ==
    /\ pc = "change_field_name"
    /\ Warn("duplicate", KB) \in {warnings[i] : i \in 1..Len(warnings)}
    /\ lastop.k = KB
    /\ KC \in Keys(fields)
    /\ KB \notin Keys(fields)

-----------------------------------------------------------------------------
(* A caller that holds a CMLParser() and selects languages: it constructs *)
(* a new parser for a language or calls set_language on the one it holds. *)

MaxLanguageCalls == 2

LanguageNames ==
    {PYTHON, <<"P", "y", "t", "h", "o", "n">>, <<"P", "Y", "T", "H", "O", "N">>,
     JAVASCRIPT, CLANG, <<"C">>, GO, <<"G", "o">>, HTML,
     <<"H", "T", "M", "L">>, CSS, CML,
     <<"r", "u", "b", "y">>, <<"R", "u", "s", "t">>, <<"p", "y">>,
     <<"p", "y", "t", "h", "o", "n", "s">>, <<>>}

InitLanguage ==
    /\ pc = "constructed"
    /\ content = <<>>
    /\ Idle

\* parser = CMLParser(language): when the constructor raises, the caller is
\* left with the parser it held
NewParser ==
    /\ calls < MaxLanguageCalls
    /\ \E name \in LanguageNames :
          LET r == set_language(Unconstructed, name)
          IN  /\ lastop' = [op |-> "CMLParser", k |-> name, c |-> <<>>]
              /\ raised' = r.raised
              /\ IF r.raised = "none"
                 THEN /\ fields' = <<>>
                      /\ language' = r.language
                      /\ language_config' = r.language_config
                      /\ field_pattern' = r.field_pattern
                 ELSE UNCHANGED <<fields, language, language_config,
                                  field_pattern>>
    /\ pc' = "CMLParser"
    /\ calls' = calls + 1
    /\ snapshot' = fields
    /\ UNCHANGED <<content, parsed_data, ioVars, patchVars, warnings, generated, declared>>

\* parser.set_language(language)
SetLanguage ==
    /\ calls < MaxLanguageCalls
    /\ \E name \in LanguageNames :
          LET r == set_language([language_config |-> language_config,
                                 field_pattern |-> field_pattern], name)
          IN  /\ lastop' = [op |-> "set_language", k |-> name, c |-> <<>>]
              /\ raised' = r.raised
              /\ language' = r.language
              /\ language_config' = r.language_config
              /\ field_pattern' = r.field_pattern
    /\ pc' = "set_language"
    /\ calls' = calls + 1
    /\ snapshot' = fields
    /\ UNCHANGED <<content, parsed_data, ioVars, patchVars, fields, warnings, generated, declared>>

NextLanguage == NewParser \/ SetLanguage

SpecLanguage == InitLanguage /\ [][NextLanguage]_vars

\* two identifiers that differ in letter case only
SameIgnoringCase(a, b) ==
    /\ Len(a) = Len(b)
    /\ \A i \in 1..Len(a) : LowerChar(a[i]) = LowerChar(b[i])

\* the identifier names a profile of the table, letter case aside
NamesProfile(name) ==
    \E known \in DOMAIN LANGUAGE_CONFIGS : SameIgnoringCase(name, known)

\* C17: CMLParser(language) and set_language(language) raise ValueError at
\* once, the store untouched, when the identifier is not in the profile
\* table, and do not when it is; identifiers match case-insensitively.
C17_UnknownLanguageRejected ==
    pc \in {"CMLParser", "set_language"} =>
        /\ ~NamesProfile(lastop.k) => (raised = "ValueError" /\ fields = snapshot)
        /\ NamesProfile(lastop.k) => raised /= "ValueError"

C17_Witness ==
    /\ pc = "set_language"
    /\ lastop.k = <<"R", "u", "s", "t">>
    /\ raised = "ValueError"
    /\ calls = 2

\* the profile held is the table's profile of the language held
ProfileOfLanguage ==
    /\ language \in DOMAIN LANGUAGE_CONFIGS
    /\ language_config = LANGUAGE_CONFIGS[language]

\* C30: in every state language_config is LANGUAGE_CONFIGS[language], and
\* a set_language call that raises ValueError leaves language,
\* language_config and the compiled pattern as they were before the call.
C30_LanguageStateConsistent ==
    [][/\ ProfileOfLanguage'
       /\ (lastop'.op = "set_language" /\ raised' = "ValueError") =>
              UNCHANGED <<language, language_config, field_pattern>>]_vars

-----------------------------------------------------------------------------
(* cml_indentation_remover.py.  Here a tag is what CML_PATTERN takes for   *)
(* one: "[[cc." or "[[/cc.", any text of the line, and the next "]]".  A   *)
(* text is a sequence of characters and of these two tag delimiters.       *)

MaxIndentPieces == 4

TAB == Ch("\t")

\* "[[cc." (kind "open") or "[[/cc." (kind "close")
TagStart(kind) == [t |-> "tagstart", k |-> <<>>, p |-> kind]

\* "]]"
TagEnd == [t |-> "tagend", k |-> <<>>, p |-> "none"]

\* \s, within a line
IsBlank(tok) == tok = SP \/ tok = TAB

RECURSIVE SkipBlank(_, _)
\* \s*: the offset behind the whitespace that starts at offset i
SkipBlank(line, i) ==
    IF i < Len(line) /\ IsBlank(At(line, i)) THEN SkipBlank(line, i + 1) ELSE i

\* "[[cc." only, without the optional '/'
OpeningTagAt(line, i) ==
    /\ i < Len(line)
    /\ At(line, i) = TagStart("open")
    /\ \E j \in (i + 1)..(Len(line) - 1) : At(line, j) = TagEnd

\* the tag part of CML_PATTERN at offset i: "[[", an optional '/', "cc.",
\* any text, as little as possible, and "]]"
TagAt(line, i) ==
    /\ i < Len(line)
    /\ At(line, i).t = "tagstart"
    /\ \E j \in (i + 1)..(Len(line) - 1) : At(line, j) = TagEnd

\* re.match(CML_PATTERN, line): whitespace, then '#', whitespace and a tag,
\* or a tag
CmlPatternMatches(line) ==
    LET i == SkipBlank(line, 0)
    IN  \/ /\ i < Len(line)
           /\ At(line, i) = HASH
           /\ TagAt(line, SkipBlank(line, i + 1))
        \/ TagAt(line, i)

\* line.lstrip()
LStrip(line) == From(line, SkipBlank(line, 0))

RECURSIVE SplitLines(_)
\* text.split('\n')
SplitLines(text) ==
    LET n == Find(text, <<NL>>)
    IN  IF n = -1 THEN <<text>>
        ELSE <<Upto(text, n)>> \o SplitLines(From(text, n + 1))

RECURSIVE JoinLines(_)
\* '\n'.join(processed_lines)
JoinLines(lines) ==
    IF Len(lines) = 0 THEN <<>>
    ELSE IF Len(lines) = 1 THEN lines[1]
    ELSE lines[1] \o <<NL>> \o JoinLines(Tail(lines))

\* the loop body of remove_cml_indentation
ProcessLine(line) == IF CmlPatternMatches(line) THEN LStrip(line) ELSE line

\* remove_cml_indentation(text)
remove_cml_indentation(text) ==
    LET lines == SplitLines(text)
    IN  JoinLines([i \in 1..Len(lines) |-> ProcessLine(lines[i])])

ClosedTag(kind) == <<TagStart(kind), CX, TagEnd>>

IndentPieces ==
    {<<SP>>, <<TAB>>, <<HASH>>, <<CX>>, <<NL>>, ClosedTag("open"),
     ClosedTag("close"), <<TagStart("open")>>, <<TagEnd>>}

IndentTexts == Concats(IndentPieces, MaxIndentPieces)

InitIndent ==
    /\ pc = "ready"
    /\ content \in IndentTexts
    /\ Idle

\* remove_cml_indentation(content)
RemoveCmlIndentation ==
    /\ pc = "ready"
    /\ patched_content' = remove_cml_indentation(content)
    /\ pc' = "unindented"
    /\ lastop' = [op |-> "remove_cml_indentation", k |-> <<>>, c |-> <<>>]
    /\ UNCHANGED <<content, parsed_data, ioVars, patch_content, idx, start_index, end_index,
                   storeVars, declared, parserVars>>

NextIndent == RemoveCmlIndentation

SpecIndent == InitIndent /\ [][NextIndent]_vars

\* the offsets of the newlines of a text, and the text's end
LineEnds(text) ==
    {i \in 0..(Len(text) - 1) : At(text, i) = NL} \cup {Len(text)}

LineCount(text) == Cardinality(LineEnds(text))

\* the n-th line end, counted from 1
NthLineEnd(text, n) ==
    CHOOSE e \in LineEnds(text) :
        Cardinality({d \in LineEnds(text) : d < e}) = n - 1

\* the n-th line of a text, without its newline
LineOf(text, n) ==
    Slice(text, IF n = 1 THEN 0 ELSE NthLineEnd(text, n - 1) + 1,
          NthLineEnd(text, n))

\* the number of whitespace characters a line starts with
Indentation(line) ==
    CHOOSE n \in 0..Len(line) :
        /\ \A i \in 1..n : IsBlank(line[i])
        /\ n < Len(line) => ~IsBlank(line[n + 1])

\* a tag stands at the head of the text: a tag start and, behind it, a tag end
BeginsWithTag(rest) ==
    /\ Len(rest) > 1
    /\ rest[1].t = "tagstart"
    /\ \E j \in 2..Len(rest) : rest[j] = TagEnd

\* the line, after its leading whitespace, begins with a tag, or with the
\* comment marker and a tag
IsTagLine(line) ==
    LET rest == SubSeq(line, Indentation(line) + 1, Len(line))
    IN  \/ BeginsWithTag(rest)
        \/ /\ Len(rest) > 0
           /\ rest[1] = HASH
           /\ LET behind == Tail(rest)
              IN  BeginsWithTag(SubSeq(behind, Indentation(behind) + 1,
                                       Len(behind)))

\* C16: remove_cml_indentation is line-local: the output has as many lines
\* as the input, and each output line is the input line without its leading
\* whitespace when the line, after leading whitespace, begins with an
\* opening or closing tag, optionally preceded by the comment marker, and is
\* the input line unchanged otherwise.
C16_OnlyTagLinesLoseIndentation ==
    pc = "unindented" =>
        /\ LineCount(patched_content) = LineCount(content)
        /\ \A n \in 1..LineCount(content) :
               LET line == LineOf(content, n)
               IN  LineOf(patched_content, n) =
                       IF IsTagLine(line)
                       THEN SubSeq(line, Indentation(line) + 1, Len(line))
                       ELSE line

C16_Witness ==
    /\ pc = "unindented"
    /\ content = <<TAB>> \o ClosedTag("close") \o <<NL, SP>>
    /\ patched_content = ClosedTag("close") \o <<NL, SP>>

-----------------------------------------------------------------------------
(* output_parser.py: OutputParser reads the text of its input file and     *)
(* extracts the out-blocks filename, mode, code and explanation.           *)

MaxOutPieces == 4

\* "[[cc.out.NAME]]"
OutOpen(name) == [t |-> "oopen", k |-> <<name>>, p |-> "none"]

\* "[[/cc.out.NAME]]"
OutClose(name) == [t |-> "oclose", k |-> <<name>>, p |-> "none"]

RECURSIVE LStripSpace(_)
LStripSpace(text) ==
    IF Len(text) > 0 /\ IsSpace(Head(text)) THEN LStripSpace(Tail(text))
    ELSE text

RECURSIVE RStripSpace(_)
RStripSpace(text) ==
    IF Len(text) > 0 /\ IsSpace(text[Len(text)])
    THEN RStripSpace(SubSeq(text, 1, Len(text) - 1))
    ELSE text

\* match.group(1).strip()
Strip(text) == RStripSpace(LStripSpace(text))

\* re.search of the block's pattern with re.DOTALL: the leftmost opening tag
\* that has a closing tag behind it, and the nearest such closing tag
SearchBlock(text, block_name) ==
    LET opens == {i \in 0..(Len(text) - 1) :
                     /\ At(text, i) = OutOpen(block_name)
                     /\ FindFrom(text, <<OutClose(block_name)>>, i + 1) /= -1}
    IN  IF opens = {} THEN [found |-> FALSE, group |-> <<>>]
        ELSE LET o == CHOOSE i \in opens : \A j \in opens : i <= j
             IN  [found |-> TRUE,
                  group |-> Slice(text, o + 1,
                                  FindFrom(text, <<OutClose(block_name)>>, o + 1))]

parse_block_lenient(text, block_name, optional) ==
    LET m == SearchBlock(text, block_name)
    IN  IF m.found THEN [raised |-> "none", value |-> Strip(m.group)]
        ELSE [raised |-> "none", value |-> NONE]

\* _parse_block(block_name, optional)
parse_block(text, block_name, optional) ==
    LET m == SearchBlock(text, block_name)
    IN  IF m.found THEN [raised |-> "none", value |-> Strip(m.group)]
        ELSE IF ~optional THEN [raised |-> "ValueError", value |-> NONE]
        ELSE [raised |-> "none", value |-> NONE]

\* _parse_raw_content(): the four blocks in turn; the first required block
\* that is missing ends it with the ValueError that names the block
parse_raw_content(text) ==
    LET f == parse_block(text, "filename", FALSE)
        m == parse_block(text, "mode", FALSE)
        c == parse_block(text, "code", FALSE)
        e == parse_block(text, "explanation", TRUE)
        Raise(name) == [raised |-> "ValueError", block |-> name, data |-> Unset]
    IN  IF f.raised /= "none" THEN Raise("filename")
        ELSE IF m.raised /= "none" THEN Raise("mode")
        ELSE IF c.raised /= "none" THEN Raise("code")
        ELSE IF e.raised /= "none" THEN Raise("explanation")
        ELSE [raised |-> "none", block |-> "",
              data |-> [filename |-> f.value, mode |-> m.value,
                        code |-> c.value, explanation |-> e.value]]

OutBlock(name, text) == <<OutOpen(name)>> \o text \o <<OutClose(name)>>

OutPieces ==
    {OutBlock("filename", <<CX>>), OutBlock("mode", <<SP, CY, NL>>),
     OutBlock("code", <<NL, CX, NL>>), OutBlock("explanation", <<CY>>),
     <<OutOpen("code")>>, <<OutClose("code")>>, <<OutOpen("explanation")>>,
     <<NL>>}

OutTexts == Concats(OutPieces, MaxOutPieces)

\* the input file has been written; no OutputParser exists yet
InitOutput ==
    /\ pc = "ready"
    /\ content \in OutTexts
    /\ Idle

\* OutputParser(input_file): raw_content is the file's text and parsed_data
\* is assigned when _parse_raw_content returns
NewOutputParser ==
    /\ pc = "ready"
    /\ LET r == parse_raw_content(content)
       IN  /\ raised' = r.raised
           /\ parsed_data' = r.data
           /\ lastop' = [op |-> "OutputParser", k |-> r.block, c |-> <<>>]
           /\ pc' = IF r.raised = "none" THEN "output_parsed" ELSE "raised"
    /\ UNCHANGED <<content, ioVars, patchVars, storeVars, declared, calls, language,
                   language_config, field_pattern>>

NextOutput == NewOutputParser

SpecOutput == InitOutput /\ [][NextOutput]_vars

\* the text holds an out-block for the name: an opening tag and, behind it,
\* a closing tag
HasOutBlock(text, name) ==
    \E i \in 1..Len(text), j \in 1..Len(text) :
        i < j /\ text[i] = OutOpen(name) /\ text[j] = OutClose(name)

RequiredBlocks == {"filename", "mode", "code"}

MissingBlocks(text) == {name \in RequiredBlocks : ~HasOutBlock(text, name)}

\* C15: constructing OutputParser on a text that lacks the out-block for
\* filename, mode or code raises a ValueError that names a missing block and
\* leaves no parsed data, not even in part; a text that lacks only the
\* explanation block is parsed, with explanation None.
C15_RequiredBlockMissingFails ==
    pc \in {"output_parsed", "raised"} =>
        IF MissingBlocks(content) /= {}
        THEN /\ raised = "ValueError"
             /\ lastop.k \in MissingBlocks(content)
             /\ parsed_data = Unset
        ELSE /\ raised = "none"
             /\ parsed_data /= Unset
             /\ ~HasOutBlock(content, "explanation") =>
                    parsed_data.explanation = NONE

C15_Witness ==
    /\ pc = "raised"
    /\ raised = "ValueError"
    /\ lastop.k = "code"
    /\ HasOutBlock(content, "filename")
    /\ HasOutBlock(content, "mode")
    /\ HasOutBlock(content, "explanation")
    /\ parsed_data = Unset

-----------------------------------------------------------------------------
(* One document handed to both extractors: CMLParser('python') of          *)
(* enhanced-cml-parser.py and the block extractor of cml_parser.py.        *)

MaxExtractPieces == 3

Hello == <<Ch("h"), Ch("e"), Ch("l"), Ch("l"), Ch("o")>>
World == <<Ch("w"), Ch("o"), Ch("r"), Ch("l"), Ch("d")>>

\* a region with its tags and its content on lines of their own
LinesRegion(key, word) ==
    FenceOpen(key, "none") \o <<NL>> \o word \o <<NL>> \o FenceClose(key)

LinesBlock(key, word) ==
    block_start(key) \o <<NL>> \o word \o <<NL>> \o block_end(key)

TwoRegionDocument ==
    LinesRegion(KA, Hello) \o <<NL>> \o LinesRegion(KB, World)

TwoBlockDocument ==
    LinesBlock(KA, Hello) \o <<NL>> \o LinesBlock(KB, World)

ExtractPieces ==
    {<<NL>>, <<CX>>, LinesRegion(KA, Hello), LinesRegion(KB, World),
     LinesBlock(KA, Hello), LinesBlock(KB, World),
     FenceOpen(KC, "none"), FenceOpen(KA, "unhashable"), FenceClose(KA),
     <<FieldOpen(KB, "lit")>>, block_start(KC), block_start(KA), RegionB4}

ExtractDocuments == Concats(ExtractPieces, MaxExtractPieces)

InitExtract ==
    /\ pc = "ready"
    /\ content \in ExtractDocuments
    /\ Idle

\* CMLParser('python').parse_content(content)
ExtractFields ==
    /\ pc = "ready"
    /\ LET r == parse_content(content)
       IN  /\ fields' = r.fields
           /\ warnings' = r.warnings
           /\ raised' = r.raised
           /\ pc' = IF r.raised = "none" THEN "fields_extracted" ELSE "raised"
    /\ lastop' = [op |-> "parse_content", k |-> <<>>, c |-> <<>>]
    /\ UNCHANGED <<content, parsed_data, ioVars, patchVars, snapshot, generated,
                   declared, calls, language, language_config, field_pattern>>

\* CMLParser().parse_code_blocks(content), of cml_parser.py
ExtractBlocks ==
    /\ pc = "ready"
    /\ patch_content' = parse_code_blocks(content)
    /\ pc' = "blocks_extracted"
    /\ lastop' = [op |-> "parse_code_blocks", k |-> <<>>, c |-> <<>>]
    /\ UNCHANGED <<content, parsed_data, ioVars, patched_content, idx, start_index,
                   end_index, storeVars, declared, parserVars>>

NextExtract == ExtractFields \/ ExtractBlocks

SpecExtract == InitExtract /\ [][NextExtract]_vars

\* the offsets of the opening tags, as the field pattern reads tags, that
\* have no closing tag of their key behind them
UnclosedFieldOpens(text) ==
    {o \in 0..(Len(text) - 1) :
        /\ AsFieldTag(At(text, o)).t = "open"
        /\ \A j \in (o + 1)..(Len(text) - 1) :
               ~(AsFieldTag(At(text, j)).t = "close"
                  /\ AsFieldTag(At(text, j)).k = AsFieldTag(At(text, o)).k)}

\* the same for the block pattern, which reads "[[cc.block.K]]" tags only
UnclosedBlockOpens(text) ==
    {o \in 0..(Len(text) - 1) :
        /\ At(text, o).t = "bopen"
        /\ \A j \in (o + 1)..(Len(text) - 1) :
               At(text, j) /= BlockClose(At(text, o).k)}

\* the text with the tags at the given offsets replaced by plain characters
Masked(text, offsets) ==
    [i \in 1..Len(text) |-> IF (i - 1) \in offsets THEN CX ELSE text[i]]

\* the same content, an opening tag in it aside that is a plain character
\* in the masked text
SameButMasked(text, masked) ==
    /\ Len(text) = Len(masked)
    /\ \A i \in 1..Len(text) :
           \/ text[i] = masked[i]
           \/ text[i].t \in {"open", "bopen"} /\ masked[i] = CX

\* C14: an opening tag with no closing tag of its key before the end of the
\* input gives no region and no error and keeps no other region, before or
\* behind it, from being extracted: both extractors return what they return
\* for the same text with those opening tags replaced by plain characters.
C14_UnclosedOpeningTagIgnored ==
    /\ (pc \in {"fields_extracted", "raised"}
            /\ UnclosedFieldOpens(content) /= {}) =>
          LET ms == FindAllFields(content, 0)
              r == parse_content(Masked(content, UnclosedFieldOpens(content)))
          IN  /\ \A i \in 1..Len(ms) : ms[i].open \notin UnclosedFieldOpens(content)
              /\ raised = r.raised
              /\ warnings = r.warnings
              /\ Len(fields) = Len(r.fields)
              /\ \A i \in 1..Len(fields) :
                     /\ fields[i].dk = r.fields[i].dk
                     /\ fields[i].f.key = r.fields[i].f.key
                     /\ fields[i].f.params = r.fields[i].f.params
                     /\ SameButMasked(fields[i].f.content,
                                      r.fields[i].f.content)
    /\ (pc = "blocks_extracted" /\ UnclosedBlockOpens(content) /= {}) =>
          LET r == parse_code_blocks(
                       Masked(content, UnclosedBlockOpens(content)))
          IN  /\ raised = "none"
              /\ Len(patch_content) = Len(r)
              /\ \A i \in 1..Len(r) :
                     /\ patch_content[i].k = r[i].k
                     /\ SameButMasked(patch_content[i].c, r[i].c)

C14_Witness ==
    /\ pc = "fields_extracted"
    /\ content = LinesRegion(KA, Hello) \o FenceOpen(KC, "none")
                     \o LinesRegion(KB, World)
    /\ Keys(fields) = {KA, KB}

\* what the two-region document is to give: regions a and b, in this order
ExtractsTwoRegions(a_content, b_content) ==
    /\ (pc \in {"fields_extracted", "raised"} /\ content = TwoRegionDocument) =>
          /\ raised = "none"
          /\ Len(fields) = 2
          /\ fields[1].dk = KA /\ fields[1].f.content = a_content
          /\ fields[2].dk = KB /\ fields[2].f.content = b_content
    /\ (pc = "blocks_extracted" /\ content = TwoBlockDocument) =>
          patch_content = <<[k |-> KA, c |-> a_content],
                            [k |-> KB, c |-> b_content]>>

\* C19: the document "# [[cc.a]]", "hello", "# [[/cc.a]]", "# [[cc.b]]",
\* "world", "# [[/cc.b]]", one per line, gives exactly two regions, a then
\* b, a's content "hello" and one newline, b's content "world" and one
\* newline.
C19_TwoRegionsTrimmed ==
    ExtractsTwoRegions(Hello \o <<NL>>, World \o <<NL>>)

\* C19, amended: a's content is newline, "hello", newline and b's content
\* is newline, "world", newline: all the text between the tags.
C19_TwoRegionsExact ==
    ExtractsTwoRegions(<<NL>> \o Hello \o <<NL>>, <<NL>> \o World \o <<NL>>)

C19_Witness ==
    /\ pc = "fields_extracted"
    /\ content = TwoRegionDocument
    /\ Len(fields) = 2

-----------------------------------------------------------------------------
(* cml_parser.py: parse_stream, a generator over the lines of a text      *)
(* stream, and parse_content on the whole text.  A text holds characters, *)
(* out tags "[[cc.out.K]]" / "[[/cc.out.K]]" and block tags.              *)

MaxStreamPieces == 4

RECURSIVE FindOutMatches(_, _)
\* out_regex.finditer(s) from offset p: the leftmost opening tag that has a
\* closing tag of its key behind it, up to the nearest such closing tag
FindOutMatches(s, p) ==
    LET opens == {i \in p..(Len(s) - 1) :
                     /\ At(s, i).t = "oopen"
                     /\ FindFrom(s, <<[At(s, i) EXCEPT !.t = "oclose"]>>,
                                 i + 1) /= -1}
    IN  IF opens = {} THEN <<>>
        ELSE LET o == CHOOSE i \in opens : \A j \in opens : i <= j
                 c == FindFrom(s, <<[At(s, o) EXCEPT !.t = "oclose"]>>, o + 1)
             IN  <<[type |-> "out", tag |-> At(s, o).k,
                    content |-> Slice(s, o + 1, c), open |-> o,
                    end |-> c + 1]>> \o FindOutMatches(s, c + 1)

\* the offset of the opening tag of the block match attempted at offset p
BlockOpenOf(s, p) ==
    IF p = 0 /\ BlockBodyAt(s, 0).ok THEN FencedTagAt(s, 0, "bopen")
    ELSE FencedTagAt(s, p + 1, "bopen")

RECURSIVE FindBlockMatches(_, _)
\* block_regex.finditer(s) from offset p, tag and content as parse_stream
\* yields them: group(1).strip('.') and group(2).strip()
FindBlockMatches(s, p) ==
    IF p > Len(s) THEN <<>>
    ELSE LET m == BlockMatchAt(s, p)
         IN  IF m.ok
             THEN <<[type |-> "block", tag |-> m.tag,
                     content |-> Strip(m.content), open |-> BlockOpenOf(s, p),
                     end |-> m.end]>> \o FindBlockMatches(s, m.end)
             ELSE FindBlockMatches(s, p + 1)

Yield(match) ==
    [type |-> match.type, tag |-> match.tag, content |-> match.content]

RECURSIVE YieldMatches(_, _)
\* "for match in out_matches + block_matches": yield, then
\* buffer = buffer[match.end():] on the buffer as it is by then
YieldMatches(matches, acc) ==
    IF matches = <<>> THEN acc
    ELSE YieldMatches(Tail(matches),
             [yielded |-> Append(acc.yielded, Yield(Head(matches))),
              buffer |-> From(acc.buffer, Head(matches).end)])

\* one iteration of "for line in stream" on the buffer and the line
StreamLine(buf, line, out) ==
    YieldMatches(FindOutMatches(buf \o line, 0)
                     \o FindBlockMatches(buf \o line, 0),
                 [yielded |-> out, buffer |-> buf \o line])

RECURSIVE StreamLines(_)
\* the lines a text stream iterates over: each with its newline
StreamLines(text) ==
    LET n == Find(text, <<NL>>)
    IN  IF text = <<>> THEN <<>>
        ELSE IF n = -1 THEN <<text>>
        ELSE <<Upto(text, n + 1)>> \o StreamLines(From(text, n + 1))

\* finditer(buffer) + finditer(buffer): two iterators cannot be added
RemainingMatches == [raised |-> "TypeError"]

\* dict(self.out_regex.findall(content)): its keys
parse_out_blocks(text) ==
    {FindOutMatches(text, 0)[i].tag : i \in 1..Len(FindOutMatches(text, 0))}

StreamOut(key, text) ==
    <<[t |-> "oopen", k |-> key, p |-> "none"]>> \o text
        \o <<[t |-> "oclose", k |-> key, p |-> "none"]>>

StreamBlock(key, text) == <<BlockOpen(key)>> \o text \o <<BlockClose(key)>>

StreamPieces ==
    {<<NL>>, <<CX>>, StreamOut(KA, <<CX>>), StreamBlock(KB, <<CY>>),
     <<[t |-> "oopen", k |-> KC, p |-> "none"]>>,
     <<[t |-> "oclose", k |-> KC, p |-> "none"]>>,
     <<BlockOpen(KC), NL>>, <<BlockClose(KC)>>}

StreamTexts == Concats(StreamPieces, MaxStreamPieces)

\* gen = CMLParser().parse_stream(io.StringIO(content)), not yet started
InitStream ==
    /\ pc = "streaming"
    /\ content \in StreamTexts
    /\ Idle

\* the generator runs one iteration of its loop over the lines
ParseStreamLine ==
    /\ pc = "streaming"
    /\ idx < Len(StreamLines(content))
    /\ LET r == StreamLine(buffer, StreamLines(content)[idx + 1], yielded)
       IN  /\ buffer' = r.buffer
           /\ yielded' = r.yielded
    /\ idx' = idx + 1
    /\ UNCHANGED <<pc, content, parsed_data, files, returned, patch_content,
                   patched_content, start_index, end_index, lastop, storeVars,
                   declared, parserVars>>

\* the stream is exhausted: the generator runs the code behind its loop
ParseStreamEnd ==
    /\ pc = "streaming"
    /\ idx = Len(StreamLines(content))
    /\ raised' = RemainingMatches.raised
    /\ pc' = "stream_ended"
    /\ UNCHANGED <<content, parsed_data, ioVars, patchVars, lastop, storeVars,
                   declared, calls, language, language_config, field_pattern>>

NextStream == ParseStreamLine \/ ParseStreamEnd

SpecStream == InitStream /\ [][NextStream]_vars

\* C23: parse_stream over a finite stream ends normally: once the last line
\* is consumed the generator finishes without raising, or with the
\* ValueError its docstring documents.
C23_StreamEndsNormally ==
    pc = "stream_ended" => raised \in {"none", "ValueError"}

\* the (type, tag) of each item of a sequence of yields or matches
TypeTags(items) == [i \in 1..Len(items) |-> <<items[i].type, items[i].tag>>]

Occurrences(pairs, pair) ==
    Cardinality({i \in 1..Len(pairs) : pairs[i] = pair})

RECURSIVE MergeByOpen(_, _)
\* two sequences of matches merged in the order of their opening tags
MergeByOpen(a, b) ==
    IF a = <<>> THEN b
    ELSE IF b = <<>> THEN a
    ELSE IF Head(a).open < Head(b).open
         THEN <<Head(a)>> \o MergeByOpen(Tail(a), b)
         ELSE <<Head(b)>> \o MergeByOpen(a, Tail(b))

\* the complete out-blocks and code blocks of a text, in document order
DocumentOrder(text) ==
    MergeByOpen(FindOutMatches(text, 0), FindBlockMatches(text, 0))

\* how often parse_content(text) returns the pair: once for each key of
\* its 'out' dict and for each item of its 'block' list
Returned(text, pair) ==
    IF pair[1] = "out" THEN (IF pair[2] \in parse_out_blocks(text) THEN 1 ELSE 0)
    ELSE Cardinality({i \in 1..Len(parse_code_blocks(text)) :
                         parse_code_blocks(text)[i].k = pair[2]})

\* C24: when the stream is exhausted parse_stream has yielded each complete
\* out-block and code block of the text once, in document order, and the
\* multiset of (type, tag) yielded is the one parse_content returns for
\* the whole text: nothing is yielded twice and nothing is lost.
C24_StreamYieldsEachBlockOnce ==
    (pc = "streaming" /\ idx = Len(StreamLines(content))) =>
        /\ TypeTags(yielded) = TypeTags(DocumentOrder(content))
        /\ \A pair \in ({"out"} \X {KA, KB, KC}) \cup ({"block"} \X {KA, KB, KC}) :
              Occurrences(TypeTags(yielded), pair) = Returned(content, pair)

-----------------------------------------------------------------------------
(* code_patcher_cml.py: CodePatcherCML(original_file, patch_file) and     *)
(* apply_patch, on a file system.  A path is a sequence of name parts; a  *)
(* file system maps the paths of the files that exist to their texts.     *)

MaxFiles == 3

PATCHED_EXTENSION == ".PATCHED"

\* f"{self.original_file}{PATCHED_EXTENSION}"
patched_file(original_file) == Append(original_file, PATCHED_EXTENSION)

RECURSIVE process_patch(_, _)
\* _process_patch: the loop over self.patch_content, from the text so far
process_patch(text, ops) ==
    IF ops = <<>> THEN text
    ELSE process_patch(ApplyItem(text, Head(ops)), Tail(ops))

OriginalPaths == {<<"o">>}

PatchPaths == {<<"p">>, <<"o">>, patched_file(<<"o">>)}

FileTexts ==
    {<<CX>>, full_block(<<"a">>, <<CX>>), full_block(<<"a">>, <<CY>>)}

\* the file systems with at most MaxFiles files
FileSystems ==
    UNION {[paths -> FileTexts] :
              paths \in {ps \in SUBSET (OriginalPaths \cup PatchPaths) :
                            Cardinality(ps) <= MaxFiles}}

\* os.path.exists(path)
Exists(fs, path) == path \in DOMAIN fs

\* open(path, 'w') and f.write(text)
Write(fs, path, text) ==
    [q \in DOMAIN fs \cup {path} |-> IF q = path THEN text ELSE fs[q]]

InitApply ==
    /\ pc = "ready"
    /\ content = <<>>
    /\ Quiet
    /\ buffer = <<>>
    /\ yielded = <<>>
    /\ returned = Unset
    /\ files \in FileSystems

\* CodePatcherCML(original_file, patch_file): _load_patch_file reads and
\* parses the patch file; any exception becomes a ClickException
NewCodePatcher ==
    /\ pc = "ready"
    /\ \E original_file \in OriginalPaths, patch_file \in PatchPaths :
          /\ lastop' = [op |-> "CodePatcherCML", k |-> original_file,
                        c |-> patch_file]
          /\ IF Exists(files, patch_file)
             THEN /\ patch_content' = parse_code_blocks(files[patch_file])
                  /\ raised' = "none"
                  /\ pc' = "constructed"
             ELSE /\ patch_content' = patch_content
                  /\ raised' = "ClickException"
                  /\ pc' = "raised"
    /\ UNCHANGED <<content, parsed_data, ioVars, patched_content, idx, start_index,
                   end_index, storeVars, declared, calls, language,
                   language_config, field_pattern>>

\* how opening and writing the patched file can end
WriteOutcomes == {"written", "open_fails", "write_fails"}

\* apply_patch()
ApplyPatch ==
    /\ pc = "constructed"
    /\ lastop' = [lastop EXCEPT !.op = "apply_patch"]
    /\ IF ~Exists(files, lastop.k)
       THEN /\ raised' = "FileNotFoundError"
            /\ pc' = "raised"
            /\ UNCHANGED <<patched_content, files, returned>>
       ELSE /\ patched_content' = process_patch(files[lastop.k], patch_content)
            /\ \E outcome \in WriteOutcomes :
                  /\ files' = IF outcome = "written"
                              THEN Write(files, patched_file(lastop.k),
                                         patched_content')
                              ELSE IF outcome = "write_fails"
                              THEN Write(files, patched_file(lastop.k), <<>>)
                              ELSE files
                  /\ raised' = IF outcome = "written" THEN "none"
                               ELSE "ClickException"
                  /\ returned' = IF outcome = "written"
                                 THEN patched_file(lastop.k) ELSE returned
                  /\ pc' = IF outcome = "written" THEN "applied" ELSE "raised"
    /\ UNCHANGED <<content, parsed_data, buffer, yielded, patch_content, idx,
                   start_index, end_index, storeVars, declared, calls, language,
                   language_config, field_pattern>>

NextApply == NewCodePatcher \/ ApplyPatch

SpecApply == InitApply /\ [][NextApply]_vars

\* the file at the path is as it was: absent, or there with the same text
SameFile(path) ==
    /\ Exists(files', path) = Exists(files, path)
    /\ Exists(files, path) => files'[path] = files[path]

\* C25: apply_patch modifies neither the original file nor the patch file:
\* when it succeeds it has written the patched text to the original path
\* plus '.PATCHED' and nowhere else, and returns that path; when it fails
\* the original file is as it was.
C25_ApplyPatchKeepsOriginalAndPatch ==
    [][lastop'.op = "apply_patch" =>
          /\ SameFile(lastop.k)
          /\ SameFile(lastop.c)
          /\ raised' = "none" =>
                /\ returned' = patched_file(lastop.k)
                /\ files'[patched_file(lastop.k)]
                       = process_patch(files[lastop.k], patch_content)
                /\ \A path \in (DOMAIN files \cup DOMAIN files')
                                   \ {patched_file(lastop.k)} : SameFile(path)]_vars

-----------------------------------------------------------------------------
(* Both extractors over documents whose regions may lie inside one        *)
(* another: each tag is a piece of its own.                                *)

MaxScanPieces == 4

ScanPieces ==
    {<<CX>>, <<FieldOpen(KA, "none")>>, <<FieldClose(KA)>>,
     <<FieldOpen(KB, "none")>>, <<FieldClose(KB)>>,
     <<NL>> \o block_start(KA), block_end(KA),
     <<NL>> \o block_start(KB), block_end(KB)}

ScanDocuments == Concats(ScanPieces, MaxScanPieces)

InitScan ==
    /\ pc = "ready"
    /\ content \in ScanDocuments
    /\ Idle

SpecScan == InitScan /\ [][NextExtract]_vars

\* the matches of the pass over the document
ScanMatches == FindAllFields(content, 0)

\* the matches lie one behind the other: each span ends before the next
\* one's opening tag
SpansInOrder(ms) ==
    /\ \A i \in 1..Len(ms) : ms[i].open < ms[i].close /\ ms[i].close < ms[i].end
    /\ \A i \in 1..Len(ms) : \A j \in (i + 1)..Len(ms) : ms[i].end <= ms[j].open

\* the closing tag of every match carries the key of its opening tag
KeysAgree(s, ms) ==
    \A i \in 1..Len(ms) :
        /\ AsFieldTag(At(s, ms[i].open)).t = "open"
        /\ AsFieldTag(At(s, ms[i].close)).t = "close"
        /\ AsFieldTag(At(s, ms[i].open)).k = ms[i].key
        /\ AsFieldTag(At(s, ms[i].close)).k = ms[i].key

\* no match opens at a tag that lies inside the span of another match
NoneInside(ms) ==
    \A i \in 1..Len(ms) : \A j \in 1..Len(ms) :
        ~(ms[j].open < ms[i].open /\ ms[i].open < ms[j].end)

RECURSIVE BlocksInOrder(_, _, _)
\* the returned (key, content) pairs are, in their order, the contents
\* between an opening and a closing block tag of the pair's key, each pair
\* found behind the closing tag of the one before
BlocksInOrder(res, s, from) ==
    \/ res = <<>>
    \/ \E o \in from..(Len(s) - 1) : \E c \in (o + 1)..(Len(s) - 1) :
          /\ At(s, o) = BlockOpen(res[1].k)
          /\ At(s, c) = BlockClose(res[1].k)
          /\ \E e \in (o + 1)..c :
                /\ FencedTagAt(s, e, "bclose") = c
                /\ Slice(s, o + 1, e) = res[1].c
          /\ BlocksInOrder(Tail(res), s, c + 1)

-----------------------------------------------------------------------------
(* enhanced-cml-parser.py: field_pattern as _compile_regexes builds it    *)
(* for a profile.  The '?' written behind the escaped marker applies to   *)
(* the marker's last character; behind an empty end marker it makes the   *)
(* whitespace before it lazy.  With the '#' profile this is FieldMatchAt. *)

MaxProfilePieces == 3

\* re.escape(marker) and '?', at offset i: the marker less its last
\* character, then that character if it is there; the offset behind, or -1
MarkerAt(marker, s, i) ==
    LET n == Len(marker)
    IN  IF ~StartsWithAt(s, SubSeq(marker, 1, n - 1), i) THEN -1
        ELSE IF i + n - 1 < Len(s) /\ At(s, i + n - 1) = marker[n] THEN i + n
        ELSE i + n - 1

\* {start_marker}?\s* and a tag of kind t: the tag's offset, or -1
ProfileTagAt(config, s, i, t) ==
    LET q == MarkerAt(config.start_marker, s, i)
        r == IF q = -1 THEN -1 ELSE SkipSpace(s, q)
    IN  IF r /= -1 /\ r < Len(s) /\ AsFieldTag(At(s, r)).t = t THEN r ELSE -1

\* \s*{end_marker}? from offset j, behind the closing tag: the offset
\* behind the match, or -1
ProfileTrailerAt(config, s, j) ==
    IF config.end_marker = <<>> THEN j
    ELSE MarkerAt(config.end_marker, s, SkipSpace(s, j))

\* the closing part of the pattern at offset i: the tag's offset, or -1
ProfileCloseAt(config, s, i, key) ==
    LET r == ProfileTagAt(config, s, i, "close")
    IN  IF r /= -1 /\ AsFieldTag(At(s, r)).k = key
           /\ ProfileTrailerAt(config, s, r + 1) /= -1
        THEN r ELSE -1

\* the lazy capture: the lowest offset >= from where the closing part matches
LazyProfileEnd(config, s, from, key) ==
    IF \E c \in from..(Len(s) - 1) : ProfileCloseAt(config, s, c, key) /= -1
    THEN CHOOSE c \in from..(Len(s) - 1) :
             /\ ProfileCloseAt(config, s, c, key) /= -1
             /\ \A d \in from..(c - 1) : ProfileCloseAt(config, s, d, key) = -1
    ELSE -1

\* whether a match starts at offset p
ProfileMatches(config, s, p) ==
    /\ ProfileTagAt(config, s, p, "open") /= -1
    /\ LazyProfileEnd(config, s, ProfileTagAt(config, s, p, "open") + 1,
                      AsFieldTag(At(s, ProfileTagAt(config, s, p, "open"))).k)
           /= -1

\* the match whose opening tag is at offset o and whose capture ends at c
ProfileMatch(config, s, o, c) ==
    [ok |-> TRUE, key |-> AsFieldTag(At(s, o)).k,
     clause |-> AsFieldTag(At(s, o)).p, content |-> Slice(s, o + 1, c),
     open |-> o, close |-> ProfileCloseAt(config, s, c, AsFieldTag(At(s, o)).k),
     end |-> ProfileTrailerAt(config, s,
                 ProfileCloseAt(config, s, c, AsFieldTag(At(s, o)).k) + 1)]

\* one match attempt starting at offset p
ProfileMatchAt(config, s, p) ==
    IF ~ProfileMatches(config, s, p) THEN NoFieldMatch
    ELSE CHOOSE m \in
             {ProfileMatch(config, s, o[1], o[2]) :
              o \in {<<t, LazyProfileEnd(config, s, t + 1, AsFieldTag(At(s, t)).k)>> :
                     t \in {ProfileTagAt(config, s, p, "open")}}} : TRUE

RECURSIVE FindProfileFields(_, _, _)
\* field_pattern.finditer(content) for the profile, from offset p: the
\* match that starts at the lowest offset, then the matches behind its end
FindProfileFields(config, s, p) ==
    IF ~\E q \in p..(Len(s) - 1) : ProfileMatches(config, s, q) THEN <<>>
    ELSE CHOOSE all \in
             {<<m>> \o FindProfileFields(config, s, m.end) :
              m \in {ProfileMatchAt(config, s, q) :
                     q \in {r \in p..(Len(s) - 1) :
                               /\ ProfileMatches(config, s, r)
                               /\ \A d \in p..(r - 1) :
                                      ~ProfileMatches(config, s, d)}}} : TRUE

\* parse_content(content) of a parser whose pattern was compiled for config
parse_profile_content(config, text) ==
    StoreMatches(FindProfileFields(config, text, 0),
                 [fields |-> <<>>, warnings |-> <<>>, raised |-> "none"])

IsFieldTag(tok) == tok.t \in {"open", "close"}

RECURSIVE WithMarkers(_, _)
\* the document with every tag written as generate_cml_field writes it:
\* start marker, space, tag and, behind a closing tag, the end marker
WithMarkers(config, text) ==
    IF text = <<>> THEN <<>>
    ELSE (IF IsFieldTag(Head(text))
          THEN config.start_marker \o <<SP, Head(text)>>
                   \o (IF Head(text).t = "close" THEN config.end_marker
                       ELSE <<>>)
          ELSE <<Head(text)>>) \o WithMarkers(config, Tail(text))

ProfilePieces ==
    {<<CX>>, <<NL>>, <<FieldOpen(KA, "none")>>, <<FieldClose(KA)>>,
     <<FieldOpen(KB, "lit"), CY, FieldClose(KB)>>}

\* documents whose tags are bare
BareDocuments == Concats(ProfilePieces, MaxProfilePieces)

\* CMLParser(language) for a profile of the table, and a bare document
InitProfile ==
    /\ pc = "constructed"
    /\ content \in BareDocuments
    /\ patch_content = <<>>
    /\ patched_content = <<>>
    /\ idx = 0
    /\ start_index = -1
    /\ end_index = -1
    /\ lastop = NoOp
    /\ fields = <<>>
    /\ snapshot = <<>>
    /\ warnings = <<>>
    /\ generated = <<>>
    /\ declared = <<>>
    /\ calls = 0
    /\ raised = "none"
    /\ parsed_data = Unset
    /\ NoIo
    /\ \E name \in DOMAIN LANGUAGE_CONFIGS :
          LET r == set_language(Unconstructed, name)
          IN  /\ r.raised = "none"
              /\ language = r.language
              /\ language_config = r.language_config
              /\ field_pattern = r.field_pattern

\* parse_content(content), the tags bare
ParseBare ==
    /\ pc = "constructed"
    /\ LET r == parse_profile_content(language_config, content)
       IN  /\ fields' = r.fields
           /\ warnings' = warnings \o r.warnings
           /\ raised' = r.raised
    /\ snapshot' = fields
    /\ pc' = "bare_parsed"
    /\ UNCHANGED <<content, parsed_data, ioVars, patchVars, lastop, generated,
                   declared, calls, language, language_config, field_pattern>>

\* the caller writes the same document with the profile's markers
WriteMarkers ==
    /\ pc = "bare_parsed"
    /\ generated' = WithMarkers(language_config, content)
    /\ pc' = "markers_written"
    /\ UNCHANGED <<content, parsed_data, ioVars, patchVars, lastop, fields,
                   snapshot, warnings, declared, parserVars>>

\* parse_content of the document with markers
ParseMarked ==
    /\ pc = "markers_written"
    /\ LET r == parse_profile_content(language_config, generated)
       IN  /\ fields' = r.fields
           /\ warnings' = warnings \o r.warnings
           /\ raised' = r.raised
    /\ snapshot' = fields
    /\ pc' = "marked_parsed"
    /\ UNCHANGED <<content, parsed_data, ioVars, patchVars, lastop, generated,
                   declared, calls, language, language_config, field_pattern>>

NextProfile == ParseBare \/ WriteMarkers \/ ParseMarked

SpecProfile == InitProfile /\ [][NextProfile]_vars

\* the ordered (key, content) of a store
KeyContents(d) == [i \in 1..Len(d) |-> <<d[i].dk, d[i].f.content>>]

\* C21: for every profile of the table, parse_content gives the same keys
\* and contents for a document with bare tags and for the same document
\* with each tag carrying the profile's marker.
C21_BareAndMarkedTagsAgree ==
    pc = "marked_parsed" => KeyContents(fields) = KeyContents(snapshot)

====
